---- MODULE Spec2Model ----
(***************************************************************************)
(* State-machine model of the command-relay gateway (unity-mcp, Python):   *)
(*   - the asynchronous-operation manager (batch_operations.py /           *)
(*     batch_tools.py, class AsyncOperationManager),                       *)
(*   - the batch executor (batch_execute / _batch_execute),                *)
(*   - the dispatcher and its read-through cache                           *)
(*     (core/command_handler.py),                                          *)
(*   - the connection to the remote host (connection.py): connect,         *)
(*     reconnect, send_command, and the framing of messages.               *)
(*                                                                         *)
(* Strings are modelled as sequences of tokens (a token is a run of        *)
(* characters without "."), so that the "<subsystem>.<action>" split and   *)
(* the lower-casing of the subsystem are computed, not assumed.            *)
(* Python's None is the string "None" for text fields and NoTime for       *)
(* time stamps.  progress is counted in tenths (10 is 1.0).                *)
(***************************************************************************)
EXTENDS Integers, Sequences, FiniteSets, TLC

(* ------------------------------- bounds -------------------------------- *)

\* the wall clock runs from 0 to MaxTime
MaxTime == 2
\* the longest list of commands handed to batch_execute
MaxBatch == 3
\* send_command calls in one run of the command handler
MaxSends == 3
\* config.performance.cache_ttl and max_cache_size, scaled down
CacheTtl == 2
MaxCacheSize == 2
\* UnityConnection.heartbeat_interval, scaled down
HeartbeatInterval == 2
\* connect() calls that fail in a row before the host comes back
MaxFailedConnects == 6
\* the interpreter's recursion limit, scaled down: how often send_command
\* may call itself before the call raises RecursionError
MaxDepth == 2
\* send_command calls the two callers make between them
MaxWireFrames == 3
\* send_command calls of the one caller whose replies are paired
MaxPairCalls == 3
\* frames sent on the byte stream, and the longest string sent
MaxFrames == 2
MaxPayload == 2
\* config.performance.max_async_operations, scaled down
MaxAsyncOperations == 1

NoTime == 0 - 1

VARIABLES
    now,            \* time.time()
    \* ---- AsyncOperationManager
    operations,     \* self.operations: operation id -> operation record
    wpc,            \* per operation: the source line its worker thread is at
    wi,             \* per operation: the worker's loop variable i
    wlocal,         \* per operation: the worker's local result / exception
    handlerCalls,   \* per operation: how often its worker invoked handler_fn
    cpc,            \* the caller of cancel_operation: the line it is at
    cid,            \* the operation id cancel_operation was called with
    cseen,          \* the status cancel_operation read at line 244
    cret,           \* what the last cancel_operation call returned
    cancelOk,       \* per operation: some cancel_operation call returned True
    cancelEarly,    \* per operation: ... while the worker had not yet passed
                    \* its last cancellation check (line 292)
    stpc,           \* the caller of start_operation: the line it is at
    stct,           \* the command_type start_operation was called with
    stid,           \* its local operation_id
    sret,           \* what the last start_operation call returned or raised
    gout,           \* what the last get_async_status call returned
    lpc,            \* the caller of list_async_operations: "idle" or "iter"
    lfilter,        \* its status argument
    lsize,          \* the size of self.operations when its loop began
    lout,           \* what the last list_async_operations call returned
    \* ---- batch_execute
    bpc,            \* "idle", or "loop" inside the for loop
    bcommands,      \* the commands argument of the current / last call
    bi,             \* the loop index i (0-based, as enumerate counts)
    results,        \* the results list
    errors,         \* the errors list
    bcalls,         \* the indices whose handler_fn was invoked, in order
    bout,           \* what the last call returned
    \* ---- UnityCommandHandler
    enable_caching, \* config.performance.enable_caching
    connection,     \* self.connection: "None" or "UnityConnection"
    command_cache,  \* self.command_cache, in the dict's insertion order
    hpc,            \* "idle", or "sending" inside connection.send_command
    hcmd,           \* the command handle was called with
    hissued,        \* when handle was called
    sendCount,      \* send_command calls made so far
    last,           \* the last handle call that returned: its command, when
                    \* it was called, the time stamp of the cache entry it
                    \* stored or served, its send_command calls, the
                    \* entries it evicted, its result, and whether the
                    \* remote host was up when it returned
    \* ---- UnityConnection (connection.py) and the remote host
    host,           \* the remote host: "up" (accepting connections), "down"
    peer,           \* the far end of self.sock: "none", "alive", "closed"
                    \* (orderly close), "reset", "silent" (no answer)
    uc,             \* the UnityConnection object: sock, connected,
                    \* reconnect_attempts, last_heartbeat
    tpc,            \* the caller of send_command: the line it is at
    terr,           \* the message of the exception caught at line 155
    tdepth,         \* how deep send_command has called itself (line 172)
    tcall,          \* the current / last outermost send_command call: its
                    \* reconnect() calls, its sends of the command, the
                    \* reset / abort errors it caught, how it ended; and of
                    \* its innermost invocation: what _check_heartbeat did
                    \* and the frames it wrote, in order
    rlast,          \* the last reconnect() call: reconnect_attempts on
                    \* entry, what it returned, what it did
    tfails,         \* failed connect() calls since the last one succeeded
    \* ---- two callers of send_command on the one connection
    wire,           \* what the sendall calls wrote to the socket, in order:
                    \* the length prefix or the payload of a caller's frame
    inbound,        \* what the host wrote back and no caller has read yet
    hostAt,         \* how much of wire the host has read
    hostGarbled,    \* the host read a prefix not followed by its payload
    spc,            \* per caller: the line it is at
    slen,           \* per caller: whose length prefix its first read got
    sgot,           \* per caller: whose reply each of its calls returned
    \* ---- one sender and one receiver of frames on a byte stream
    fsent,          \* the strings handed to _send_data, in order
    fstream,        \* the bytes written and not yet received
    fpc,            \* the receiver: the line of _receive_full_response
    fsize,          \* the size argument of the running _receive_data
    fdata,          \* its local data
    fgot,           \* the strings _receive_full_response returned
    fread,          \* bytes received so far
    fsplit,         \* some recv call returned less than it was asked for
    \* ---- one caller of send_command and the replies of the remote host
    psent,          \* the frames written to the socket, in order
    pinbound,       \* the replies the host wrote and the caller has not
                    \* read: each is the number of the frame it answers
    phostAt,        \* how many frames the host has answered
    ppc,            \* the caller: "idle", or the line whose read it waits in
    pcur,           \* current_time of _check_heartbeat (line 273)
    pbeat,          \* self.last_heartbeat
    pgot            \* per send_command call that ended: the number of its
                    \* command frame and of the frame whose reply it
                    \* returned, 0 when it raised

\* the caller of start_operation
startVars == <<stpc, stct, stid, sret>>

\* the callers of get_async_status and list_async_operations
queryVars == <<gout, lpc, lfilter, lsize, lout>>

asyncVars == <<operations, wpc, wi, wlocal, handlerCalls, cpc, cid, cseen,
               cret, cancelOk, cancelEarly, startVars, queryVars>>

batchVars == <<bpc, bcommands, bi, results, errors, bcalls, bout>>

cacheVars == <<enable_caching, connection, command_cache, hpc, hcmd, hissued,
               sendCount, last>>

transportVars == <<host, peer, uc, tpc, terr, tdepth, tcall, rlast, tfails>>

wireVars == <<wire, inbound, hostAt, hostGarbled, spc, slen, sgot>>

framingVars == <<fsent, fstream, fpc, fsize, fdata, fgot, fread, fsplit>>

pairVars == <<psent, pinbound, phostAt, ppc, pcur, pbeat, pgot>>

\* the state of connection.py
netVars == <<transportVars, wireVars, framingVars, pairVars>>

\* what the asynchronous-operation manager never touches
nonAsyncVars == <<batchVars, cacheVars, netVars>>

\* what batch_execute never touches
nonBatchVars == <<now, asyncVars, cacheVars, netVars>>

\* what the command handler never touches
nonCacheVars == <<asyncVars, batchVars, netVars>>

\* what connection.py never touches (the clock apart)
nonNetVars == <<asyncVars, batchVars, cacheVars>>

\* what the calls on the connection object never touch
nonTransportVars == <<nonNetVars, wireVars, framingVars, pairVars>>

\* what the two callers of send_command never touch
nonWireVars == <<now, nonNetVars, transportVars, framingVars, pairVars>>

\* what the framing never touches
nonFramingVars == <<now, nonNetVars, transportVars, wireVars, pairVars>>

\* what the caller and the replying host never touch (the clock apart)
nonPairVars == <<nonNetVars, transportVars, wireVars, framingVars>>

vars == <<now, asyncVars, batchVars, cacheVars, netVars>>

(* ------------------------- command types, tools ------------------------ *)

Dot == "."

\* str.lower() on a token
Lower(tok) ==
    CASE tok = "Core" -> "core"
      [] tok = "X"    -> "x"
      [] OTHER        -> tok

\* first index of "." in a token sequence, 0 when there is none
RECURSIVE FindDot(_, _)
FindDot(s, k) ==
    IF k > Len(s) THEN 0
    ELSE IF s[k] = Dot THEN k
    ELSE FindDot(s, k + 1)

\* command_type.split(".", 1) with the subsystem lower-cased, "core" when
\* the type has no ".": <<subsystem, action>>, each a token sequence
SplitType(ct) ==
    LET d == FindDot(ct, 1) IN
    IF d > 0
    THEN <<[k \in 1..(d - 1) |-> Lower(ct[k])], SubSeq(ct, d + 1, Len(ct))>>
    ELSE << <<"core">>, ct >>

\* mcp.tools: the registered tools, as (name, subsystem) pairs
Tools ==
    { [name |-> <<"ping">>, subsystem |-> <<"core">>],
      [name |-> <<"read">>, subsystem |-> <<"x">>] }

\* a lookup that compares the tool name alone
ResolvesByNameOnly(ct) ==
    \E tool \in Tools : tool.name = SplitType(ct)[2]

\* the lookup loop: is there a tool with tool.name == action and
\* tool.subsystem == subsystem
Resolves(ct) ==
    \E tool \in Tools :
        tool.name = SplitType(ct)[2] /\ tool.subsystem = SplitType(ct)[1]

\* the characters of a command type, in one string
RECURSIVE TypeText(_)
TypeText(ct) == IF ct = <<>> THEN "" ELSE ct[1] \o TypeText(Tail(ct))

\* an error message that leaves the type out
UnknownTypeErrorBare(ct) == "Unknown command type"

\* str(ValueError(f"Unknown command type: {command_type}")), line 281
UnknownTypeError(ct) == "Unknown command type: " \o TypeText(ct)

\* the command types callers pass
CommandTypes ==
    { <<"ping">>, <<"Core", Dot, "ping">>, <<"x", Dot, "read">>,
      <<"read">>, <<"unknown">>, <<>> }

(* --------------------- commands sent to the dispatcher ----------------- *)

\* A parameters dict is a sequence of <<key, value>> pairs in the dict's
\* own order; keys are numbered in their alphabetical order.
NoParams == <<>>
ParamsAB == << <<1, "cube">>, <<2, "red">> >>
ParamsBA == << <<2, "red">>, <<1, "cube">> >>
ParamsOther == << <<1, "sphere">> >>

NoCommand == [type |-> "None", parameters |-> NoParams]

\* the commands callers pass to handle
Commands ==
    { [type |-> "get_object_info", parameters |-> ParamsAB],
      [type |-> "get_object_info", parameters |-> ParamsBA],
      [type |-> "get_object_info", parameters |-> ParamsOther],
      [type |-> "get_scene_info", parameters |-> NoParams],
      [type |-> "create_object", parameters |-> ParamsAB] }

NoCall ==
    [valid |-> FALSE, cmd |-> NoCommand, issued |-> 0, stamp |-> NoTime,
     sends |-> 0, evicted |-> 0, host |-> "up",
     result |-> [id |-> 0, success |-> "absent"]]

(* ----------------------- AsyncOperationManager ------------------------- *)

\* range(1, 10) of the simulated progress loop stops before ProgressEnd
ProgressEnd == 10

\* the operation ids (uuid4 strings in the code) start_operation hands out,
\* in the order it hands them out; NoOp is an id it never handed out
OpIds == {1, 2}
NoOp == 0

Terminal == {"completed", "failed", "cancelled"}

\* a cancel_operation that gives up on operations still pending
CancellableRunningOnly == {"running"}

\* the statuses cancel_operation acts on
Cancellable == {"pending", "running"}

\* the lines of _execute_async_operation before the last cancellation check
BeforeLastCheck == {"L261", "L262", "L266", "L285", "L289", "L292"}

\* no get_async_status, no list_async_operations call has returned yet
NoAnswer == [kind |-> "none"]

\* no start_operation call has returned yet
NoStart == [kind |-> "none", id |-> NoOp]

TypeOK_Async ==
    /\ DOMAIN operations \subseteq OpIds
    /\ \A id \in DOMAIN operations :
        operations[id].status \in {"pending", "running"} \cup Terminal

AsyncInit ==
    /\ operations = <<>>
    /\ wpc = [id \in OpIds |-> "none"]
    /\ wi = [id \in OpIds |-> 0]
    /\ wlocal = [id \in OpIds |-> "None"]
    /\ handlerCalls = [id \in OpIds |-> 0]
    /\ cpc = "idle"
    /\ cid = NoOp
    /\ cseen = "None"
    /\ cret = "None"
    /\ cancelOk = [id \in OpIds |-> FALSE]
    /\ cancelEarly = [id \in OpIds |-> FALSE]
    /\ stpc = "idle"
    /\ stct = <<>>
    /\ stid = NoOp
    /\ sret = NoStart
    /\ gout = NoAnswer
    /\ lpc = "idle"
    /\ lfilter = "None"
    /\ lsize = 0
    /\ lout = NoAnswer

BatchInit ==
    /\ bpc = "idle"
    /\ bcommands = [kind |-> "none", items |-> <<>>]
    /\ bi = 0
    /\ results = <<>>
    /\ errors = <<>>
    /\ bcalls = <<>>
    /\ bout = [kind |-> "nothing"]

\* UnityCommandHandler.__init__: the connection get_unity_connection gave
\* (None when the first connect failed) and an empty cache
CacheInit(caching, conn) ==
    /\ enable_caching = caching
    /\ connection = conn
    /\ command_cache = <<>>
    /\ hpc = "idle"
    /\ hcmd = NoCommand
    /\ hissued = 0
    /\ sendCount = 0
    /\ last = NoCall

\* no outermost send_command call, no reconnect() call yet
NoSend == [valid |-> FALSE, reconnects |-> 0, sends |-> 0, resets |-> 0,
           outcome |-> "none", hb |-> "none", frames |-> <<>>]
NoReconnect == [valid |-> FALSE, attempts |-> 0, ret |-> FALSE,
                disconnected |-> FALSE, slept |-> 0, connects |-> 0]

\* UnityConnection.__init__ (lines 21-37), the host being up or down
TransportInit(h) ==
    /\ host = h
    /\ peer = "none"
    /\ uc = [sock |-> "None", connected |-> FALSE, reconnect_attempts |-> 0,
             last_heartbeat |-> 0]
    /\ tpc = "idle"
    /\ terr = "None"
    /\ tdepth = 0
    /\ tcall = NoSend
    /\ rlast = NoReconnect
    /\ tfails = 0

\* the callers sharing the global connection (get_unity_connection)
Callers == {1, 2}

\* nothing written, nothing read
WireInit ==
    /\ wire = <<>>
    /\ inbound = <<>>
    /\ hostAt = 0
    /\ hostGarbled = FALSE
    /\ spc = [c \in Callers |-> "idle"]
    /\ slen = [c \in Callers |-> 0]
    /\ sgot = [c \in Callers |-> <<>>]

FramingInit ==
    /\ fsent = <<>>
    /\ fstream = <<>>
    /\ fpc = "idle"
    /\ fsize = 0
    /\ fdata = <<>>
    /\ fgot = <<>>
    /\ fread = 0
    /\ fsplit = FALSE

\* connected at time 0 (line 50: self.last_heartbeat = time.time()),
\* nothing written, nothing read
PairInit ==
    /\ psent = <<>>
    /\ pinbound = <<>>
    /\ phostAt = 0
    /\ ppc = "idle"
    /\ pcur = 0
    /\ pbeat = 0
    /\ pgot = <<>>

NetInit ==
    /\ TransportInit("up")
    /\ WireInit
    /\ FramingInit
    /\ PairInit

Init ==
    /\ now = 0
    /\ AsyncInit
    /\ BatchInit
    /\ CacheInit(TRUE, "UnityConnection")
    /\ NetInit

\* the clock advances between any two steps
Tick ==
    /\ now < MaxTime
    /\ now' = now + 1
    /\ UNCHANGED <<asyncVars, batchVars, cacheVars, netVars>>

\* start_operation: reject an empty type, store the operation as pending,
\* launch its worker thread
StartOperation(ct) ==
    /\ Len(operations) < Cardinality(OpIds)
    /\ ct # <<>>
    /\ LET id == Len(operations) + 1 IN
        /\ operations' = Append(operations,
              [command_type |-> ct, status |-> "pending",
               creation_time |-> now, start_time |-> NoTime,
               completion_time |-> NoTime, result |-> "None",
               error |-> "None", progress |-> 0])
        /\ wpc' = [wpc EXCEPT ![id] = "L261"]
    /\ UNCHANGED <<now, wi, wlocal, handlerCalls, cpc, cid, cseen, cret,
                   cancelOk, cancelEarly, startVars,
                   queryVars, nonAsyncVars>>

(* _execute_async_operation, one action per source line that reads or      *)
(* writes self.operations (the worker runs concurrently with callers).     *)

asyncGhost == <<cpc, cid, cseen, cret, cancelOk, cancelEarly>>

\* line 261: status = "running", whatever the status was
WorkerSetRunning(id) ==
    /\ wpc[id] = "L261"
    /\ operations' = [operations EXCEPT ![id].status = "running"]
    /\ wpc' = [wpc EXCEPT ![id] = "L262"]
    /\ UNCHANGED <<now, wi, wlocal, handlerCalls, asyncGhost, startVars,
                   queryVars, nonAsyncVars>>

\* line 262: start_time = time.time()
WorkerSetStartTime(id) ==
    /\ wpc[id] = "L262"
    /\ operations' = [operations EXCEPT ![id].start_time = now]
    /\ wpc' = [wpc EXCEPT ![id] = "L266"]
    /\ UNCHANGED <<now, wi, wlocal, handlerCalls, asyncGhost, startVars,
                   queryVars, nonAsyncVars>>

\* lines 266-281: split the type, look the handler up; raise ValueError
\* ("Unknown command type") when no tool matches
WorkerResolve(id) ==
    /\ wpc[id] = "L266"
    /\ IF Resolves(operations[id].command_type)
       THEN /\ wpc' = [wpc EXCEPT ![id] = "L285"]
            /\ wi' = [wi EXCEPT ![id] = 1]
            /\ UNCHANGED wlocal
       ELSE /\ wpc' = [wpc EXCEPT ![id] = "L309"]
            /\ wlocal' = [wlocal EXCEPT ![id] =
                             UnknownTypeError(operations[id].command_type)]
            /\ UNCHANGED wi
    /\ UNCHANGED <<now, operations, handlerCalls, asyncGhost, startVars,
                   queryVars, nonAsyncVars>>

\* lines 284-286: the loop head and its cancellation check
WorkerLoopCheck(id) ==
    /\ wpc[id] = "L285"
    /\ IF wi[id] >= ProgressEnd
       THEN wpc' = [wpc EXCEPT ![id] = "L292"]
       ELSE IF operations[id].status = "cancelled"
       THEN wpc' = [wpc EXCEPT ![id] = "exit"]
       ELSE wpc' = [wpc EXCEPT ![id] = "L289"]
    /\ UNCHANGED <<now, operations, wi, wlocal, handlerCalls, asyncGhost,
                   startVars,
                   queryVars, nonAsyncVars>>

\* lines 288-289: sleep, then progress = i / 10.0
WorkerProgress(id) ==
    /\ wpc[id] = "L289"
    /\ operations' = [operations EXCEPT ![id].progress = wi[id]]
    /\ wi' = [wi EXCEPT ![id] = wi[id] + 1]
    /\ wpc' = [wpc EXCEPT ![id] = "L285"]
    /\ UNCHANGED <<now, wlocal, handlerCalls, asyncGhost, startVars,
                   queryVars, nonAsyncVars>>

\* lines 292-293: the last cancellation check
WorkerLastCheck(id) ==
    /\ wpc[id] = "L292"
    /\ IF operations[id].status = "cancelled"
       THEN wpc' = [wpc EXCEPT ![id] = "exit"]
       ELSE wpc' = [wpc EXCEPT ![id] = "L297"]
    /\ UNCHANGED <<now, operations, wi, wlocal, handlerCalls, asyncGhost,
                   startVars,
                   queryVars, nonAsyncVars>>

\* lines 296-299: handler_fn(**parameters) returns a value or raises
WorkerCallHandler(id) ==
    /\ wpc[id] = "L297"
    /\ handlerCalls' = [handlerCalls EXCEPT ![id] = handlerCalls[id] + 1]
    /\ \E outcome \in {"returns", "raises"} :
        IF outcome = "returns"
        THEN /\ wlocal' = [wlocal EXCEPT ![id] = "value"]
             /\ wpc' = [wpc EXCEPT ![id] = "L302"]
        ELSE /\ wlocal' = [wlocal EXCEPT ![id] = "handler error"]
             /\ wpc' = [wpc EXCEPT ![id] = "L309"]
    /\ UNCHANGED <<now, operations, wi, asyncGhost, startVars,
                   queryVars, nonAsyncVars>>

\* lines 302-305: status, completion_time, result, progress, one write each
WorkerCompleted(id) ==
    /\ wpc[id] \in {"L302", "L303", "L304", "L305"}
    /\ CASE wpc[id] = "L302" ->
              /\ operations' = [operations EXCEPT ![id].status = "completed"]
              /\ wpc' = [wpc EXCEPT ![id] = "L303"]
         [] wpc[id] = "L303" ->
              /\ operations' = [operations EXCEPT ![id].completion_time = now]
              /\ wpc' = [wpc EXCEPT ![id] = "L304"]
         [] wpc[id] = "L304" ->
              /\ operations' = [operations EXCEPT ![id].result = wlocal[id]]
              /\ wpc' = [wpc EXCEPT ![id] = "L305"]
         [] wpc[id] = "L305" ->
              /\ operations' = [operations EXCEPT ![id].progress = 10]
              /\ wpc' = [wpc EXCEPT ![id] = "exit"]
    /\ UNCHANGED <<now, wi, wlocal, handlerCalls, asyncGhost, startVars,
                   queryVars, nonAsyncVars>>

\* an except block that forgets the progress of a failed operation
WorkerFailedProgressLeft(id) ==
    /\ wpc[id] \in {"L309", "L310", "L311", "L312"}
    /\ CASE wpc[id] = "L309" ->
              /\ operations' = [operations EXCEPT ![id].status = "failed"]
              /\ wpc' = [wpc EXCEPT ![id] = "L310"]
         [] wpc[id] = "L310" ->
              /\ operations' = [operations EXCEPT ![id].completion_time = now]
              /\ wpc' = [wpc EXCEPT ![id] = "L311"]
         [] wpc[id] = "L311" ->
              /\ operations' = [operations EXCEPT ![id].error = wlocal[id]]
              /\ wpc' = [wpc EXCEPT ![id] = "L312"]
         [] wpc[id] = "L312" ->
              /\ operations' = operations
              /\ wpc' = [wpc EXCEPT ![id] = "exit"]
    /\ UNCHANGED <<now, wi, wlocal, handlerCalls, asyncGhost, startVars,
                   queryVars, nonAsyncVars>>

\* an except block that marks every operation of the table as failed
WorkerFailedAll(id) ==
    /\ wpc[id] \in {"L309", "L310", "L311", "L312"}
    /\ CASE wpc[id] = "L309" ->
              /\ operations' = [o \in DOMAIN operations |->
                                   [operations[o] EXCEPT !.status = "failed"]]
              /\ wpc' = [wpc EXCEPT ![id] = "L310"]
         [] wpc[id] = "L310" ->
              /\ operations' = [operations EXCEPT ![id].completion_time = now]
              /\ wpc' = [wpc EXCEPT ![id] = "L311"]
         [] wpc[id] = "L311" ->
              /\ operations' = [operations EXCEPT ![id].error = wlocal[id]]
              /\ wpc' = [wpc EXCEPT ![id] = "L312"]
         [] wpc[id] = "L312" ->
              /\ operations' = [operations EXCEPT ![id].progress = 10]
              /\ wpc' = [wpc EXCEPT ![id] = "exit"]
    /\ UNCHANGED <<now, wi, wlocal, handlerCalls, asyncGhost, startVars,
                   queryVars, nonAsyncVars>>

\* lines 309-312 (except Exception): status, completion_time, error, progress
WorkerFailed(id) ==
    /\ wpc[id] \in {"L309", "L310", "L311", "L312"}
    /\ CASE wpc[id] = "L309" ->
              /\ operations' = [operations EXCEPT ![id].status = "failed"]
              /\ wpc' = [wpc EXCEPT ![id] = "L310"]
         [] wpc[id] = "L310" ->
              /\ operations' = [operations EXCEPT ![id].completion_time = now]
              /\ wpc' = [wpc EXCEPT ![id] = "L311"]
         [] wpc[id] = "L311" ->
              /\ operations' = [operations EXCEPT ![id].error = wlocal[id]]
              /\ wpc' = [wpc EXCEPT ![id] = "L312"]
         [] wpc[id] = "L312" ->
              /\ operations' = [operations EXCEPT ![id].progress = 10]
              /\ wpc' = [wpc EXCEPT ![id] = "exit"]
    /\ UNCHANGED <<now, wi, wlocal, handlerCalls, asyncGhost, startVars,
                   queryVars, nonAsyncVars>>

(* cancel_operation, called from a thread other than the worker's; there   *)
(* is no lock, so the worker may run between its lines.                    *)

\* lines 239-244: unknown id, or read the status and test it
CancelCall(id) ==
    /\ cpc = "idle"
    /\ cid' = id
    /\ cret' = "None"
    /\ IF id \notin DOMAIN operations
       THEN /\ cseen' = "None"
            /\ cpc' = "L240"
       ELSE /\ cseen' = operations[id].status
            /\ cpc' = IF operations[id].status \in Cancellable
                      THEN "L245" ELSE "L249"
    /\ UNCHANGED <<now, operations, wpc, wi, wlocal, handlerCalls,
                   cancelOk, cancelEarly, startVars,
                   queryVars, nonAsyncVars>>

\* line 245: status = "cancelled"
CancelSetStatus ==
    /\ cpc = "L245"
    /\ operations' = [operations EXCEPT ![cid].status = "cancelled"]
    /\ cpc' = "L246"
    /\ UNCHANGED <<now, wpc, wi, wlocal, handlerCalls, cid, cseen, cret,
                   cancelOk, cancelEarly, startVars,
                   queryVars, nonAsyncVars>>

\* a cancel_operation that also marks the operation as finished
CancelSetTimeAndProgress ==
    /\ cpc = "L246"
    /\ operations' = [operations EXCEPT ![cid].completion_time = now,
                                        ![cid].progress = 10]
    /\ cpc' = "L247"
    /\ UNCHANGED <<now, wpc, wi, wlocal, handlerCalls, cid, cseen, cret,
                   cancelOk, cancelEarly, startVars,
                   queryVars, nonAsyncVars>>

\* line 246: completion_time = time.time()
CancelSetTime ==
    /\ cpc = "L246"
    /\ operations' = [operations EXCEPT ![cid].completion_time = now]
    /\ cpc' = "L247"
    /\ UNCHANGED <<now, wpc, wi, wlocal, handlerCalls, cid, cseen, cret,
                   cancelOk, cancelEarly, startVars,
                   queryVars, nonAsyncVars>>

\* lines 240, 247, 249: return
CancelReturn ==
    /\ cpc \in {"L240", "L247", "L249"}
    /\ cret' = IF cpc = "L247" THEN "True" ELSE "False"
    /\ cpc' = "idle"
    /\ IF cpc = "L247"
       THEN /\ cancelOk' = [cancelOk EXCEPT ![cid] = TRUE]
            /\ cancelEarly' = [cancelEarly EXCEPT ![cid] =
                                  @ \/ wpc[cid] \in BeforeLastCheck]
       ELSE UNCHANGED <<cancelOk, cancelEarly>>
    /\ UNCHANGED <<now, operations, wpc, wi, wlocal, handlerCalls, cid, cseen,
                   startVars,
                   queryVars, nonAsyncVars>>

Worker(id) ==
    \/ WorkerSetRunning(id)
    \/ WorkerSetStartTime(id)
    \/ WorkerResolve(id)
    \/ WorkerLoopCheck(id)
    \/ WorkerProgress(id)
    \/ WorkerLastCheck(id)
    \/ WorkerCallHandler(id)
    \/ WorkerCompleted(id)
    \/ WorkerFailed(id)

Cancel ==
    \/ \E id \in OpIds \cup {NoOp} : CancelCall(id)
    \/ CancelSetStatus
    \/ CancelSetTime
    \/ CancelReturn

\* one operation, its worker, a caller of cancel_operation and the clock
NextAsync ==
    \/ Tick
    \/ \E ct \in CommandTypes : operations = <<>> /\ StartOperation(ct)
    \/ \E id \in OpIds : Worker(id)
    \/ Cancel

SpecAsync == Init /\ [][NextAsync]_vars

(* ------------------- claims on the operation life cycle ---------------- *)

\* the moves of the status the life cycle allows
StatusStep(s, t) ==
    \/ s = t
    \/ s = "pending" /\ t \in {"running", "cancelled"}
    \/ s = "running" /\ t \in Terminal

\* C1: the status of every operation only moves along
\* pending -> running -> {completed, failed, cancelled}; once it is
\* completed, failed or cancelled it never changes again.
C1_StatusOnlyMovesForward ==
    [][\A id \in DOMAIN operations :
          StatusStep(operations[id].status, operations'[id].status)]_vars

\* C2: once cancel(id) has returned true, the worker of id never sets the
\* status to completed.
C2_NoCompletedAfterCancel ==
    [][\A id \in DOMAIN operations :
          cancelOk[id] =>
              ~(operations[id].status # "completed"
                /\ operations'[id].status = "completed")]_vars

\* C3: if cancel(id) returned true before the worker passed its last
\* cancellation check (a cancel of a pending operation included), the
\* worker never invokes the handler and writes neither result nor error.
C3_EarlyCancelStopsWorker ==
    \A id \in DOMAIN operations :
        cancelEarly[id] =>
            /\ handlerCalls[id] = 0
            /\ operations[id].result = "None"
            /\ operations[id].error = "None"

\* C4: cancel(id) returns true exactly when id is in the table and the
\* status it reads is pending or running; it then writes status cancelled
\* and sets completion_time; for an unknown id and for a completed, failed
\* or cancelled operation it returns false.
C4_CancelResult ==
    /\ [](cpc = "idle" /\ cret # "None" =>
            (cret = "True") = (/\ cid \in DOMAIN operations
                               /\ cseen \in {"pending", "running"}))
    /\ [](cpc = "idle" /\ cret = "True" =>
            operations[cid].completion_time # NoTime)
    /\ [][cpc = "L245" /\ cpc' = "L246" =>
            operations'[cid].status = "cancelled"]_vars
    /\ [][cpc = "L246" /\ cpc' = "L247" =>
            operations'[cid].completion_time = now]_vars

\* a cancel of a running operation has returned true, one of a finished
\* operation false
C4_Witness ==
    /\ cpc = "idle"
    /\ cret = "True"
    /\ cseen = "running"
    /\ operations[cid].status = "cancelled"

(* ----------------------------- batch_execute --------------------------- *)
(* batch_execute (batch_operations.py) and _batch_execute (batch_tools.py) *)
(* are the same code; line numbers are those of batch_operations.py.       *)

\* the entries of a commands list: a value that is no dict, a dict without
\* "type", a dict whose "type" is no string (a number, None), and a dict
\* with a string "type"
NotAnObject ==
    [isDict |-> FALSE, hasType |-> FALSE, typeIsStr |-> FALSE, type |-> <<>>]
NoTypeKey ==
    [isDict |-> TRUE, hasType |-> FALSE, typeIsStr |-> FALSE, type |-> <<>>]
NonStringType ==
    [isDict |-> TRUE, hasType |-> TRUE, typeIsStr |-> FALSE, type |-> <<>>]
Typed(ct) ==
    [isDict |-> TRUE, hasType |-> TRUE, typeIsStr |-> TRUE, type |-> ct]

BatchTypes ==
    { <<"x", Dot, "read">>, <<"Core", Dot, "ping">>, <<"read">>,
      <<"unknown">> }

Entries ==
    {NotAnObject, NoTypeKey, NonStringType} \cup {Typed(ct) : ct \in BatchTypes}

\* the values a caller passes as commands: a list, None, a non-empty dict
BatchInputs ==
    {[kind |-> "list", items |-> items] :
        items \in UNION {[1..n -> Entries] : n \in 0..MaxBatch}}
    \cup {[kind |-> "none", items |-> <<>>], [kind |-> "dict", items |-> <<>>]}

\* Python truth value of the commands argument
Truthy(c) ==
    CASE c.kind = "list" -> Len(c.items) > 0
      [] c.kind = "dict" -> TRUE
      [] OTHER           -> FALSE

\* a guard that forgets the emptiness test
RejectsNonListOnly(c) == c.kind # "list"

\* line 22: not commands or not isinstance(commands, list)
Rejects(c) == ~Truthy(c) \/ c.kind # "list"

\* lines 39-80: what the loop body does with one entry before any handler
\* runs.  A "type" that is no string makes `"." in command_type` raise
\* TypeError, which the outer except (line 138) turns into an error entry.
Classify(cmd) ==
    IF ~cmd.isDict THEN "not_object"
    ELSE IF ~cmd.hasType THEN "missing_type"
    ELSE IF ~cmd.typeIsStr THEN "unexpected"
    ELSE IF ~Resolves(cmd.type) THEN "unknown_type"
    ELSE "call"

\* an error entry tagged with the 1-based position
ErrorEntryOneBased(what, i, cmd) ==
    [error |-> what, command_index |-> i + 1,
     has_command_type |-> what = "handler",
     command_type |-> IF what = "handler" THEN cmd.type ELSE <<>>]

\* lines 40-43, 47-50, 76-79, 117-122, 143-147: the error entry; only a
\* handler exception carries command_type
ErrorEntry(what, i, cmd) ==
    [error |-> what, command_index |-> i,
     has_command_type |-> what = "handler",
     command_type |-> IF what = "handler" THEN cmd.type ELSE <<>>]

\* what handler_fn(**command_params) does: returns a dict with success
\* true, a dict with success false, a value that is no dict, or raises
HandlerOutcomes == {"dict_ok", "dict_fail", "value", "raises"}

\* lines 94-103: the result annotated with commandType (and executionTime),
\* a non-dict wrapped as {"result": value, ...}.  src is not a field of the
\* program's result: it records the index the result came from.
ResultEntry(cmd, outcome, i) ==
    [commandType |-> cmd.type,
     wrapped |-> outcome = "value",
     success |-> CASE outcome = "dict_ok"   -> "True"
                   [] outcome = "dict_fail" -> "False"
                   [] OTHER                 -> "absent",
     src |-> i]

\* a loop that stops at the first failing entry
AfterItemAbort(i, n, failed) == IF failed THEN n ELSE i + 1

\* the for loop: `continue` after an error, the next index after a result
AfterItem(i, n, failed) == i + 1

\* a summary that derives success from the results
BatchOutcomeSuccessIfAnyResult(cmds, res, errs) ==
    [kind |-> "outcome", results |-> res, errors |-> errs,
     commandCount |-> Len(cmds), successCount |-> Len(res),
     errorCount |-> Len(errs), success |-> Len(res) > 0]

\* a summary that reads the payloads: a result whose success is false is
\* not counted, and makes the batch fail
BatchOutcomeReadsPayload(cmds, res, errs) ==
    LET ok == {k \in DOMAIN res : res[k].success # "False"}
    IN  [kind |-> "outcome", results |-> res, errors |-> errs,
         commandCount |-> Len(cmds), successCount |-> Cardinality(ok),
         errorCount |-> Len(errs),
         success |-> Len(errs) = 0 /\ Cardinality(ok) = Len(res)]

\* lines 153-161: the returned summary
BatchOutcome(cmds, res, errs) ==
    [kind |-> "outcome", results |-> res, errors |-> errs,
     commandCount |-> Len(cmds), successCount |-> Len(res),
     errorCount |-> Len(errs), success |-> Len(errs) = 0]

\* lines 22-33: reject, or set up the containers.  The function keeps
\* nothing between calls (results and errors are locals), so a behaviour
\* holds rejected calls and one call that enters the loop.
BatchCall(c) ==
    /\ bpc = "idle"
    /\ bout.kind \in {"nothing", "rejected"}
    /\ bcommands' = c
    /\ bi' = 0
    /\ results' = <<>>
    /\ errors' = <<>>
    /\ bcalls' = <<>>
    /\ IF Rejects(c)
       THEN /\ bout' = [kind |-> "rejected", success |-> FALSE,
                        error |-> "Invalid commands parameter"]
            /\ bpc' = "idle"
       ELSE /\ bout' = [kind |-> "pending"]
            /\ bpc' = "loop"
    /\ UNCHANGED nonBatchVars

\* lines 36-147: one iteration of the loop
BatchItem ==
    /\ bpc = "loop"
    /\ bi < Len(bcommands.items)
    /\ LET cmd == bcommands.items[bi + 1]
           n   == Len(bcommands.items)
       IN  IF Classify(cmd) # "call"
           THEN /\ errors' = Append(errors, ErrorEntry(Classify(cmd), bi, cmd))
                /\ bi' = AfterItem(bi, n, TRUE)
                /\ UNCHANGED <<results, bcalls>>
           ELSE \E outcome \in HandlerOutcomes :
                /\ bcalls' = Append(bcalls, bi)
                /\ IF outcome = "raises"
                   THEN /\ errors' = Append(errors, ErrorEntry("handler", bi, cmd))
                        /\ UNCHANGED results
                   ELSE /\ results' = Append(results, ResultEntry(cmd, outcome, bi))
                        /\ UNCHANGED errors
                /\ bi' = AfterItem(bi, n, outcome = "raises")
    /\ UNCHANGED <<bpc, bcommands, bout, nonBatchVars>>

\* lines 149-161: the loop is over, return the summary
BatchReturn ==
    /\ bpc = "loop"
    /\ bi >= Len(bcommands.items)
    /\ bout' = BatchOutcome(bcommands.items, results, errors)
    /\ bpc' = "idle"
    /\ UNCHANGED <<bcommands, bi, results, errors, bcalls, nonBatchVars>>

NextBatch ==
    \/ \E c \in BatchInputs : BatchCall(c)
    \/ BatchItem
    \/ BatchReturn

SpecBatch == Init /\ [][NextBatch]_vars

(* ------------------------ claims on batch_execute ---------------------- *)

\* the command types that name a registered handler, written out
RegisteredTypes ==
    { <<"ping">>, <<"core", Dot, "ping">>, <<"Core", Dot, "ping">>,
      <<"x", Dot, "read">>, <<"X", Dot, "read">> }

\* an entry that is an object with a string type naming a handler
ValidEntry(e) ==
    e.isDict /\ e.hasType /\ e.typeIsStr /\ e.type \in RegisteredTypes

\* an entry that is no object, lacks "type", or names no handler
MalformedOrUnknown(e) ==
    \/ ~e.isDict
    \/ ~e.hasType
    \/ e.typeIsStr /\ e.type \notin RegisteredTypes

\* how often v occurs in sequence q
Count(q, v) == Cardinality({k \in DOMAIN q : q[k] = v})

ResultsFrom(p) == Cardinality({k \in DOMAIN results : results[k].src = p})
ErrorsAt(p) == Cardinality({k \in DOMAIN errors : errors[k].command_index = p})

StrictlyIncreasing(q) == \A k \in 1..(Len(q) - 1) : q[k] < q[k + 1]

\* the call on a non-empty list has returned its summary
BatchReturned ==
    bpc = "idle" /\ bout.kind = "outcome"

BatchPositions == 0..(Len(bcommands.items) - 1)

\* C5: for a non-empty list of N commands, whatever they are, the summary
\* has commandCount = N, successCount + errorCount = N, every entry gave
\* exactly one result or exactly one error, and success = (errorCount = 0).
C5_BatchCounts ==
    /\ (/\ bpc = "idle"
        /\ bout.kind # "nothing"
        /\ bcommands.kind = "list"
        /\ Len(bcommands.items) > 0) => BatchReturned
    /\ BatchReturned =>
        /\ bout.commandCount = Len(bcommands.items)
        /\ bout.successCount = Len(bout.results)
        /\ bout.errorCount = Len(bout.errors)
        /\ bout.successCount + bout.errorCount = Len(bcommands.items)
        /\ bout.success = (bout.errorCount = 0)
        /\ bout.results = results /\ bout.errors = errors
        /\ \A p \in BatchPositions : ResultsFrom(p) + ErrorsAt(p) = 1

\* a summary of three commands, one result and two errors
C5_Witness ==
    /\ BatchReturned
    /\ bout.commandCount = 3
    /\ bout.successCount = 1
    /\ bout.errorCount = 2
    /\ ~bout.success

\* C6: a malformed entry, an unknown type or a raising handler at position
\* i never stops the batch: the handler of every valid, resolvable entry at
\* a position already passed (at the return: every position) was invoked
\* exactly once.
C6_PerItemIsolation ==
    /\ bpc = "loop" =>
        \A j \in BatchPositions :
            (j < bi /\ ValidEntry(bcommands.items[j + 1]))
                => Count(bcalls, j) = 1
    /\ BatchReturned =>
        \A j \in BatchPositions :
            ValidEntry(bcommands.items[j + 1]) => Count(bcalls, j) = 1

\* a malformed entry, then a raising handler, then a handler that ran
C6_Witness ==
    /\ BatchReturned
    /\ Len(bcommands.items) = 3
    /\ ~bcommands.items[1].isDict
    /\ ErrorsAt(0) = 1
    /\ \E k \in DOMAIN errors :
          errors[k].command_index = 1 /\ errors[k].error = "handler"
    /\ Count(bcalls, 2) = 1
    /\ ResultsFrom(2) = 1

\* C7: handlers are invoked in input order, results keep the input order
\* of the successful commands, and the errors carry strictly increasing
\* command_index values, each the position of the entry that failed.
C7_BatchOrder ==
    /\ StrictlyIncreasing(bcalls)
    /\ StrictlyIncreasing([k \in DOMAIN results |-> results[k].src])
    /\ StrictlyIncreasing([k \in DOMAIN errors |-> errors[k].command_index])
    /\ \A k \in DOMAIN results :
        /\ results[k].src \in BatchPositions
        /\ results[k].commandType = bcommands.items[results[k].src + 1].type
        /\ Count(bcalls, results[k].src) = 1
    /\ \A k \in DOMAIN errors :
        /\ errors[k].command_index \in BatchPositions
        /\ LET e == bcommands.items[errors[k].command_index + 1] IN
            \/ ~ValidEntry(e) /\ Count(bcalls, errors[k].command_index) = 0
            \/ /\ ValidEntry(e)
               /\ Count(bcalls, errors[k].command_index) = 1
               /\ errors[k].error = "handler"
               /\ errors[k].command_type = e.type

\* a result between two errors
C7_Witness ==
    /\ BatchReturned
    /\ Len(results) >= 1
    /\ Len(errors) >= 2
    /\ results[1].src > errors[1].command_index
    /\ errors[2].command_index > results[1].src

\* the batch [valid, {bad: 1}, {type: unknown}]
ExampleBatch == <<Typed(<<"x", Dot, "read">>), NoTypeKey, Typed(<<"unknown">>)>>

\* C8: an entry that is no object, lacks "type" or names no registered
\* handler gives exactly one error entry with its own position as
\* command_index, nothing in results, and no handler invocation; the batch
\* [valid, {bad: 1}, {type: unknown}] gives errors at 1 and 2,
\* commandCount 3 and success false, and one result and errorCount 2 when
\* the valid command's handler returns.
C8_MalformedEntries ==
    /\ \A p \in BatchPositions :
        ((bpc = "loop" /\ p < bi) \/ BatchReturned)
          /\ MalformedOrUnknown(bcommands.items[p + 1])
        => /\ ErrorsAt(p) = 1
           /\ ResultsFrom(p) = 0
           /\ Count(bcalls, p) = 0
    /\ (BatchReturned /\ bcommands.items = ExampleBatch) =>
        /\ ErrorsAt(1) = 1 /\ ErrorsAt(2) = 1
        /\ bout.commandCount = 3
        /\ ~bout.success
        /\ bcalls = <<0>>
        /\ (ErrorsAt(0) = 0 =>
              (bout.errorCount = 2 /\ Len(bout.results) = 1))

\* the example batch returned, its first handler having returned a dict
C8_Witness ==
    /\ BatchReturned
    /\ bcommands.items = ExampleBatch
    /\ Len(bout.results) = 1
    /\ bout.errorCount = 2

\* C9: an empty list or a value that is no list is rejected at once:
\* success false and an error message, no handler invoked, no results or
\* errors sequences.
C9_RejectsEmptyOrNonList ==
    (bout.kind # "nothing"
       /\ (bcommands.kind # "list" \/ Len(bcommands.items) = 0))
    => /\ bpc = "idle"
       /\ bout.kind = "rejected"
       /\ bout.success = FALSE
       /\ bout.error # ""
       /\ DOMAIN bout = {"kind", "success", "error"}
       /\ bcalls = <<>>
       /\ results = <<>> /\ errors = <<>>

\* the empty list was rejected
C9_Witness ==
    /\ bout.kind = "rejected"
    /\ bcommands.kind = "list"
    /\ bcommands.items = <<>>

(* ------------------------ UnityCommandHandler.handle ------------------- *)

\* lines 130-139: read_only_commands
ReadOnlyCommands ==
    { "get_system_info", "get_scene_info", "get_object_info",
      "get_asset_categories", "search_asset_store",
      "search_polyhaven_assets", "get_assistant_insights",
      "get_creative_suggestions" }

\* _is_cacheable
IsCacheable(ct) == ct \in ReadOnlyCommands

\* json.dumps(parameters, sort_keys=True): the pairs in key order
RECURSIVE SortPairs(_)
SortPairs(params) ==
    IF params = <<>> THEN <<>>
    ELSE LET m == CHOOSE k \in DOMAIN params :
                    \A j \in DOMAIN params : params[k][1] <= params[j][1]
         IN  <<params[m]>> \o
             SortPairs([k \in 1..(Len(params) - 1) |->
                           IF k < m THEN params[k] ELSE params[k + 1]])

\* a key made of the parameters in the dict's own order
GetCacheKeyUnsorted(ct, params) == <<ct, params>>

\* _get_cache_key: f"{command_type}:{json.dumps(parameters, sort_keys=True)}"
GetCacheKey(ct, params) == <<ct, SortPairs(params)>>

\* the position of key in the cache, 0 when it has no entry
CacheIndex(cache, key) ==
    IF \E k \in DOMAIN cache : cache[k].key = key
    THEN CHOOSE k \in DOMAIN cache : cache[k].key = key
    ELSE 0

\* an expiry test that still serves an entry of age cache_ttl
FreshInclusive(entry, t) == t - entry.timestamp <= CacheTtl

\* line 65: time.time() - cache_entry["timestamp"] < cache_ttl
Fresh(entry, t) == t - entry.timestamp < CacheTtl

\* lines 87-90: self.command_cache[cache_key] = {...}; an existing key
\* keeps its place in the dict, a new key goes last
Store(cache, key, result, t) ==
    LET entry == [key |-> key, result |-> result, timestamp |-> t]
        k     == CacheIndex(cache, key)
    IN  IF k > 0 THEN [cache EXCEPT ![k] = entry] ELSE Append(cache, entry)

\* the subsequence of q at the positions in keep
RECURSIVE Keep(_, _, _)
Keep(q, keep, k) ==
    IF k > Len(q) THEN <<>>
    ELSE (IF k \in keep THEN <<q[k]>> ELSE <<>>) \o Keep(q, keep, k + 1)

\* an eviction that deletes the entries with the largest time stamps
EvictNewest(cache) ==
    IF Len(cache) > MaxCacheSize
    THEN LET Before(j, k) ==
                 \/ cache[j].timestamp < cache[k].timestamp
                 \/ cache[j].timestamp = cache[k].timestamp /\ j < k
             Rank(k) == Cardinality({j \in DOMAIN cache : Before(j, k)})
         IN  Keep(cache, {k \in DOMAIN cache : Rank(k) < MaxCacheSize}, 1)
    ELSE cache

\* lines 93-101: over the bound, delete the first len - max_cache_size keys
\* of sorted(keys, key=timestamp) (a stable sort of the dict's order)
Evict(cache) ==
    IF Len(cache) > MaxCacheSize
    THEN LET Before(j, k) ==
                 \/ cache[j].timestamp < cache[k].timestamp
                 \/ cache[j].timestamp = cache[k].timestamp /\ j < k
             Rank(k) == Cardinality({j \in DOMAIN cache : Before(j, k)})
         IN  Keep(cache,
                  {k \in DOMAIN cache : Rank(k) >= Len(cache) - MaxCacheSize},
                  1)
    ELSE cache

\* what connection.send_command does: a reply dict with success true, with
\* success false, with a success that is a non-empty string, without
\* success, a reply that is no dict, or it raises ConnectionError
SendOutcomes ==
    {"success_true", "success_false", "success_text", "no_success",
     "not_a_dict", "raises"}

\* what send_command does when the remote host keeps to its protocol, in
\* which success is a boolean
ProtocolOutcomes == SendOutcomes \ {"success_text"}

\* the reply of the n-th send_command call, received at time t (id and at
\* are not fields of the program's reply: they tell the replies apart)
Reply(outcome, n, t) ==
    [kind |-> IF outcome = "not_a_dict" THEN "value" ELSE "reply",
     id |-> n, at |-> t,
     success |-> CASE outcome = "success_true"  -> "True"
                   [] outcome = "success_text"  -> "text"
                   [] outcome = "success_false" -> "False"
                   [] OTHER                     -> "absent"]

\* line 85, result.get("success", False) in a condition: true, or any
\* other value Python takes for true
SuccessTruthy(reply) == reply.success \in {"True", "text"}

\* lines 114-118: the result handle builds from an exception
ErrorResult(t) == [kind |-> "error", id |-> 0, at |-> t, success |-> "False"]

\* a handle whose cache hit stamps the entry with the time of the hit
HandleCallRefreshing(cmd) ==
    /\ hpc = "idle"
    /\ LET key == GetCacheKey(cmd.type, cmd.parameters)
           k   == CacheIndex(command_cache, key)
       IN  IF /\ enable_caching
              /\ IsCacheable(cmd.type)
              /\ k > 0
              /\ Fresh(command_cache[k], now)
           THEN /\ last' = [valid |-> TRUE, cmd |-> cmd, issued |-> now,
                            stamp |-> command_cache[k].timestamp,
                            sends |-> 0, evicted |-> 0, host |-> host,
                            result |-> command_cache[k].result]
                /\ command_cache' =
                       [command_cache EXCEPT ![k].timestamp = now]
                /\ UNCHANGED <<connection, hpc, hcmd, hissued, sendCount>>
           ELSE /\ sendCount < MaxSends
                /\ connection' = "UnityConnection"
                /\ hpc' = "sending"
                /\ hcmd' = cmd
                /\ hissued' = now
                /\ sendCount' = sendCount + 1
                /\ UNCHANGED <<last, command_cache>>
    /\ UNCHANGED <<now, enable_caching, nonCacheVars>>

\* a handle that makes a send_command call before it serves a cache entry
HandleCallProbing(cmd) ==
    /\ hpc = "idle"
    /\ LET key == GetCacheKey(cmd.type, cmd.parameters)
           k   == CacheIndex(command_cache, key)
       IN  IF /\ enable_caching
              /\ IsCacheable(cmd.type)
              /\ k > 0
              /\ Fresh(command_cache[k], now)
           THEN /\ sendCount < MaxSends
                /\ last' = [valid |-> TRUE, cmd |-> cmd, issued |-> now,
                            stamp |-> command_cache[k].timestamp,
                            sends |-> 0, evicted |-> 0, host |-> host,
                            result |-> command_cache[k].result]
                /\ sendCount' = sendCount + 1
                /\ UNCHANGED <<connection, hpc, hcmd, hissued>>
           ELSE /\ sendCount < MaxSends
                /\ connection' = "UnityConnection"
                /\ hpc' = "sending"
                /\ hcmd' = cmd
                /\ hissued' = now
                /\ sendCount' = sendCount + 1
                /\ UNCHANGED last
    /\ UNCHANGED <<now, enable_caching, command_cache, nonCacheVars>>

\* lines 58-82: serve a fresh cache entry, or obtain the connection and
\* call send_command
HandleCall(cmd) ==
    /\ hpc = "idle"
    /\ LET key == GetCacheKey(cmd.type, cmd.parameters)
           k   == CacheIndex(command_cache, key)
       IN  IF /\ enable_caching
              /\ IsCacheable(cmd.type)
              /\ k > 0
              /\ Fresh(command_cache[k], now)
           THEN /\ last' = [valid |-> TRUE, cmd |-> cmd, issued |-> now,
                            stamp |-> command_cache[k].timestamp,
                            sends |-> 0, evicted |-> 0, host |-> host,
                            result |-> command_cache[k].result]
                /\ UNCHANGED <<connection, hpc, hcmd, hissued, sendCount>>
           ELSE /\ sendCount < MaxSends
                /\ connection' = "UnityConnection"
                /\ hpc' = "sending"
                /\ hcmd' = cmd
                /\ hissued' = now
                /\ sendCount' = sendCount + 1
                /\ UNCHANGED last
    /\ UNCHANGED <<now, enable_caching, command_cache, nonCacheVars>>

\* lines 82-118: send_command returns or raises, in one of the ways of
\* outcomes; cache a success of a cacheable command, evict, return
HandleReturnOf(outcomes) ==
    /\ hpc = "sending"
    /\ \E outcome \in outcomes :
        LET reply   == Reply(outcome, sendCount, now)
            caching == enable_caching /\ IsCacheable(hcmd.type)
            stores  == caching /\ reply.kind = "reply" /\ SuccessTruthy(reply)
            raises  == outcome = "raises"
                       \/ (caching /\ outcome = "not_a_dict")
            stored  == Store(command_cache,
                             GetCacheKey(hcmd.type, hcmd.parameters),
                             reply, now)
        IN  /\ command_cache' = IF stores THEN Evict(stored) ELSE command_cache
            /\ last' = [valid |-> TRUE, cmd |-> hcmd, issued |-> hissued,
                        stamp |-> IF stores THEN now ELSE NoTime,
                        sends |-> 1, host |-> host,
                        evicted |-> IF stores
                                    THEN Len(stored) - Len(Evict(stored))
                                    ELSE 0,
                        result |-> IF raises THEN ErrorResult(now) ELSE reply]
    /\ hpc' = "idle"
    /\ UNCHANGED <<now, enable_caching, connection, hcmd, hissued, sendCount,
                   nonCacheVars>>

\* handle's return for everything send_command can do
HandleReturn == HandleReturnOf(SendOutcomes)

InitCache ==
    /\ now = 0
    /\ AsyncInit
    /\ BatchInit
    /\ \E caching \in BOOLEAN, conn \in {"None", "UnityConnection"} :
          CacheInit(caching, conn)
    /\ NetInit

NextCache ==
    \/ Tick
    \/ \E cmd \in Commands : HandleCall(cmd)
    \/ HandleReturn

SpecCache == InitCache /\ [][NextCache]_vars

(* --------------------------- claims on the cache ----------------------- *)

\* two parameter dicts are equal: the same keys with the same values
SameParams(p, q) ==
    {p[k] : k \in DOMAIN p} = {q[k] : k \in DOMAIN q}

\* C10: with caching enabled, when a cacheable command whose reply carried
\* success = true is issued again with equal parameters, the second call
\* makes no send_command call and returns the first call's result if it
\* is issued less than cacheTtl after that reply was stored, and makes a
\* second send_command call if cacheTtl has elapsed.
C10_CacheWithinTtl ==
    [][(/\ enable_caching
        /\ last.valid
        /\ last' # last
        /\ last.cmd.type \in {"get_object_info", "get_scene_info"}
        /\ last.result.kind = "reply"
        /\ last.result.success = "True"
        /\ last'.cmd.type = last.cmd.type
        /\ SameParams(last'.cmd.parameters, last.cmd.parameters))
       => IF last'.issued - last.result.at < CacheTtl
          THEN last'.sends = 0 /\ last'.result = last.result
          ELSE last'.sends = 1]_vars

\* a command was sent once, asked again later within the ttl with its
\* parameters in another order, and served from the cache
C10_Witness ==
    /\ last.valid
    /\ last.sends = 0
    /\ last.cmd.parameters = ParamsBA
    /\ command_cache[1].key[2] = ParamsAB
    /\ last.issued > last.result.at
    /\ sendCount = 1

\* the keys of a cache
CacheKeys(cache) == {cache[k].key : k \in DOMAIN cache}

\* the smaller of two numbers
Smaller(a, b) == IF a <= b THEN a ELSE b

\* C11: the cache never holds more than maxCacheSize entries, and a call
\* that stores an entry leaves min(entries + 1 for a new key, maxCacheSize)
\* entries: the stored entry with the current time stamp is among them, no
\* removed entry has a larger time stamp than a retained one, and every
\* entry that was neither stored nor removed is unchanged, so that the
\* retained entries are the maxCacheSize most recently stored ones.
C11_CacheBound ==
    /\ [](Len(command_cache) <= MaxCacheSize)
    /\ [][(last' # last /\ last'.sends = 1 /\ last'.stamp # NoTime) =>
          LET key     == GetCacheKey(last'.cmd.type, last'.cmd.parameters)
              before  == Len(command_cache)
                         + (IF key \in CacheKeys(command_cache) THEN 0 ELSE 1)
              removed == {k \in DOMAIN command_cache :
                            /\ command_cache[k].key # key
                            /\ command_cache[k].key
                                 \notin CacheKeys(command_cache')}
          IN  /\ Len(command_cache') = Smaller(before, MaxCacheSize)
              /\ Cardinality(CacheKeys(command_cache')) = Len(command_cache')
              /\ Cardinality(removed) = before - Len(command_cache')
              /\ \E j \in DOMAIN command_cache' :
                    /\ command_cache'[j].key = key
                    /\ command_cache'[j].timestamp = now'
                    /\ command_cache'[j].result = last'.result
              /\ \A k \in removed : \A j \in DOMAIN command_cache' :
                    command_cache[k].timestamp <= command_cache'[j].timestamp
              /\ \A k \in DOMAIN command_cache :
                    (k \notin removed /\ command_cache[k].key # key) =>
                        \E j \in DOMAIN command_cache' :
                            command_cache'[j] = command_cache[k]]_vars

\* a call stored a new entry in a full cache and evicted an older one
C11_Witness ==
    /\ last.valid
    /\ last.evicted = 1
    /\ Len(command_cache) = MaxCacheSize
    /\ command_cache[Len(command_cache)].timestamp = last.stamp
    /\ command_cache[1].timestamp < last.stamp

(* ------------------------ CommandHandlerRegistry ----------------------- *)

\* line 287: self.handlers = {}; nothing in the program calls
\* register_handler, so the registry of specific handlers stays empty
RegisteredHandlers == {}

\* lines 314-319: local_commands
LocalCommands ==
    { "get_error_logs", "get_error_details", "clear_error_logs",
      "generate_api_documentation" }

\* a lookup that never picks the local handler
GetHandlerNeverLocal(ct) ==
    IF ct \in RegisteredHandlers THEN "handlers" ELSE "default_handler"

\* get_handler: a specific handler, else the local handler for a local
\* command, else the default handler (the UnityCommandHandler)
GetHandler(ct) ==
    IF ct \in RegisteredHandlers THEN "handlers"
    ELSE IF ct \in LocalCommands THEN "local_handler"
    ELSE "default_handler"

\* the commands callers pass to handle_command: those of Commands, the
\* local commands (key 1 of get_error_details is its error_id) and a type
\* nothing in the program knows
DispatchCommands ==
    Commands \cup
    { [type |-> "get_error_logs", parameters |-> NoParams],
      [type |-> "get_error_details", parameters |-> NoParams],
      [type |-> "get_error_details", parameters |-> ParamsOther],
      [type |-> "clear_error_logs", parameters |-> NoParams],
      [type |-> "generate_api_documentation", parameters |-> NoParams],
      [type |-> "frobnicate", parameters |-> NoParams] }

\* a dict a local command returns: success true, or an error message with
\* success false
LocalResult(ok, t) ==
    [kind |-> IF ok THEN "local" ELSE "error", id |-> 0, at |-> t,
     success |-> IF ok THEN "True" ELSE "False"]

\* LocalCommandHandler.handle: whether the command can succeed, can fail
LocalOutcomes(cmd) ==
    CASE cmd.type = "get_error_logs"    -> {TRUE}
      [] cmd.type = "get_error_details" ->
            IF cmd.parameters = NoParams THEN {FALSE} ELSE {TRUE, FALSE}
      [] cmd.type = "clear_error_logs"  -> {TRUE}
      [] OTHER                          -> {FALSE}

\* handle_command for a command of the local handler: it runs in-process
DispatchLocal(cmd) ==
    /\ hpc = "idle"
    /\ GetHandler(cmd.type) = "local_handler"
    /\ \E ok \in LocalOutcomes(cmd) :
          last' = [valid |-> TRUE, cmd |-> cmd, issued |-> now,
                   stamp |-> NoTime, sends |-> 0, evicted |-> 0,
                   host |-> host, result |-> LocalResult(ok, now)]
    /\ UNCHANGED <<now, enable_caching, connection, command_cache, hpc, hcmd,
                   hissued, sendCount, nonCacheVars>>

\* handle_command for a command of the default handler
DispatchDefault(cmd) ==
    /\ GetHandler(cmd.type) = "default_handler"
    /\ HandleCall(cmd)

\* lines 337-338: handler = self.get_handler(...); handler.handle(...)
HandleCommand(cmd) ==
    \/ DispatchLocal(cmd)
    \/ DispatchDefault(cmd)

NextDispatch ==
    \/ Tick
    \/ \E cmd \in DispatchCommands : HandleCommand(cmd)
    \/ HandleReturnOf(ProtocolOutcomes)

SpecDispatch == InitCache /\ [][NextDispatch]_vars

(* ------------------------- claims on the dispatcher -------------------- *)

\* a type with no registered handler that is not a local command
NoHandlerNotLocal(ct) == ct \notin RegisteredHandlers /\ ct \notin LocalCommands

\* C12: a command whose type has no registered handler and is not a local
\* command is never passed to send_command, and the call returns a result
\* with success false that made no send_command call and stored nothing
\* in the cache.
C12_UnknownTypeRejected ==
    /\ hpc = "sending" => ~NoHandlerNotLocal(hcmd.type)
    /\ (last.valid /\ NoHandlerNotLocal(last.cmd.type)) =>
          /\ last.result.success = "False"
          /\ last.sends = 0
          /\ last.stamp = NoTime

\* C13: every handle call returns a result object (a mapping), and a call
\* whose execution failed returns one with an error message and success
\* false.
C13_AlwaysAResultObject ==
    last.valid =>
        /\ last.result.kind \in {"reply", "local", "error"}
        /\ last.result.kind = "error" => last.result.success = "False"

\* C14: a local command is never passed to send_command, and the call
\* that executes it leaves the connection, the send_command count and the
\* cache as they were, whether or not the handler holds a connection.
C14_LocalCommandsStayLocal ==
    /\ [](hpc = "sending" => hcmd.type \notin LocalCommands)
    /\ [][(last' # last /\ last'.cmd.type \in LocalCommands) =>
             /\ last'.sends = 0
             /\ last'.result.kind \in {"local", "error"}
             /\ UNCHANGED <<connection, sendCount, hpc, command_cache>>]_vars

\* a local command ran while the handler held no connection and nothing
\* had been sent
C14_Witness ==
    /\ last.valid
    /\ last.cmd.type = "get_error_logs"
    /\ last.result.success = "True"
    /\ connection = "None"
    /\ sendCount = 0

(* --------------------- UnityConnection (connection.py) ----------------- *)

\* line 32: self.max_reconnect_attempts
MaxReconnectAttempts == 5

\* the ways the remote host drops a connection
DropModes == {"closed", "reset", "silent"}

\* str(e) of the exception the socket calls raise on a connection whose
\* far end is closed (recv returns b'', or the send fails), reset, or
\* silent; the WinError texts are those of Windows, the Errno texts those
\* of Linux and macOS
SocketErrors(p) ==
    CASE p = "closed" -> {"Connection closed by Unity", "Errno 32",
                          "Errno 104", "WinError 10054"}
      [] p = "reset"  -> {"Errno 104", "WinError 10053", "WinError 10054"}
      [] OTHER        -> {"timed out"}

\* line 168: "10053" in str(e) or "10054" in str(e)
HasResetCode(text) == text \in {"WinError 10053", "WinError 10054"}

\* a refusal that lets one more attempt through
RefusesAboveMax(c) == c.reconnect_attempts > MaxReconnectAttempts

\* line 94: self.reconnect_attempts >= self.max_reconnect_attempts
Refuses(c) == c.reconnect_attempts >= MaxReconnectAttempts

\* a connect() that forgets to reset the counter when it succeeds
ConnectResultKeepsCount(c, h, t) ==
    IF h = "up"
    THEN [c EXCEPT !.sock = "socket", !.last_heartbeat = t,
                   !.connected = TRUE]
    ELSE [c EXCEPT !.sock = "None", !.reconnect_attempts = @ + 1,
                   !.connected = FALSE]

\* connect(), lines 46-53 when the host accepts, lines 64-68 when not
ConnectResult(c, h, t) ==
    IF h = "up"
    THEN [c EXCEPT !.sock = "socket", !.last_heartbeat = t,
                   !.reconnect_attempts = 0, !.connected = TRUE]
    ELSE [c EXCEPT !.sock = "None", !.reconnect_attempts = @ + 1,
                   !.connected = FALSE]

\* a disconnect() without try / except / finally around close()
DisconnectOutcomeUnguarded(c, closeRaises) ==
    IF c.sock # "None"
    THEN IF closeRaises
         THEN [conn |-> c, raised |-> TRUE]
         ELSE [conn |-> [c EXCEPT !.sock = "None", !.connected = FALSE],
               raised |-> FALSE]
    ELSE [conn |-> c, raised |-> FALSE]

\* disconnect(), lines 72-86, on a socket whose close() raises or not: the
\* connection it leaves and whether an exception leaves the call.  The
\* exception of close() is reported (lines 75-83) and the finally clause
\* (lines 84-86) runs either way.
DisconnectOutcome(c, closeRaises) ==
    IF c.sock # "None"
    THEN [conn |-> [c EXCEPT !.sock = "None", !.connected = FALSE],
          raised |-> FALSE]
    ELSE [conn |-> c, raised |-> FALSE]

\* the connection disconnect() leaves
Disconnected(c, closeRaises) == DisconnectOutcome(c, closeRaises).conn

\* the remote host goes away: it stops accepting connections, and the
\* connection it holds is closed, reset or left without an answer
HostDrop(mode) ==
    /\ host = "up"
    /\ host' = "down"
    /\ peer' = IF peer = "alive" THEN mode ELSE peer
    /\ UNCHANGED <<now, uc, tpc, terr, tdepth, tcall, rlast, tfails,
                   nonTransportVars>>

\* the remote host is back and accepts connections
HostUp ==
    /\ host = "down"
    /\ host' = "up"
    /\ UNCHANGED <<now, peer, uc, tpc, terr, tdepth, tcall, rlast, tfails,
                   nonTransportVars>>

\* what a connect() call at time t does to the connection and the ghosts
ConnectStep(c, t) ==
    /\ host = "down" => c.reconnect_attempts < MaxFailedConnects
    /\ uc' = ConnectResult(c, host, t)
    /\ peer' = IF host = "up" THEN "alive" ELSE "none"
    /\ tfails' = IF host = "up" THEN 0 ELSE tfails + 1

\* a caller calls connect()
Connect ==
    /\ tpc = "idle"
    /\ ConnectStep(uc, now)
    /\ UNCHANGED <<now, host, tpc, terr, tdepth, tcall, rlast, nonTransportVars>>

\* a caller calls disconnect()
Disconnect ==
    /\ tpc = "idle"
    /\ \E closeRaises \in BOOLEAN : uc' = Disconnected(uc, closeRaises)
    /\ peer' = "none"
    /\ UNCHANGED <<now, host, tpc, terr, tdepth, tcall, rlast, tfails,
                   nonTransportVars>>

\* reconnect(), lines 94-107, returning ret: refuse, or disconnect, sleep
\* reconnect_delay * (reconnect_attempts + 1) and connect
ReconnectBody(ret) ==
    IF Refuses(uc)
    THEN /\ ret = FALSE
         /\ rlast' = [valid |-> TRUE, attempts |-> uc.reconnect_attempts,
                      ret |-> FALSE, disconnected |-> FALSE, slept |-> 0,
                      connects |-> 0]
         /\ UNCHANGED <<now, uc, peer, tfails>>
    ELSE /\ ret = (host = "up")
         /\ \E t \in now..MaxTime, closeRaises \in BOOLEAN :
               /\ now' = t
               /\ ConnectStep(Disconnected(uc, closeRaises), t)
         /\ rlast' = [valid |-> TRUE, attempts |-> uc.reconnect_attempts,
                      ret |-> ret, disconnected |-> uc.sock # "None",
                      slept |-> uc.reconnect_attempts + 1, connects |-> 1]

\* a caller calls reconnect()
Reconnect ==
    /\ tpc = "idle"
    /\ \E ret \in BOOLEAN : ReconnectBody(ret)
    /\ UNCHANGED <<host, tpc, terr, tdepth, tcall, nonTransportVars>>

\* the outermost send_command call ends: it returns, or an exception
\* leaves it through every nested call
Finish(outcome, sent, reset) ==
    /\ tpc' = "idle"
    /\ tdepth' = 0
    /\ tcall' = [tcall EXCEPT !.outcome = outcome, !.sends = @ + sent,
                              !.resets = @ + reset,
                              !.reconnects = @ + reset,
                              !.frames = IF sent = 1
                                         THEN Append(@, "command") ELSE @]

\* a heartbeat that waits until the interval is exceeded
HeartbeatDueLater(c, t) == t - c.last_heartbeat > HeartbeatInterval

\* line 274: the interval has passed since last_heartbeat
HeartbeatDue(c, t) == t - c.last_heartbeat >= HeartbeatInterval

\* _check_heartbeat, lines 273-282: when the interval has passed, exchange
\* a heartbeat; on success remember the time, on any exception go on
Heartbeat(c, t, ok) ==
    IF HeartbeatDue(c, t) /\ ok
    THEN [c EXCEPT !.last_heartbeat = t]
    ELSE c

\* what a heartbeat exchange can end in: on a live connection the reply
\* arrives, or the read times out; on a dropped one it fails
HeartbeatReplies(p) == IF p = "alive" THEN {TRUE, FALSE} ELSE {FALSE}

\* a caller calls send_command(action, params)
SendCommand ==
    /\ tpc = "idle"
    /\ tpc' = "L122"
    /\ tdepth' = 0
    /\ terr' = "None"
    /\ tcall' = [valid |-> TRUE, reconnects |-> 0, sends |-> 0, resets |-> 0,
                 outcome |-> "running", hb |-> "none", frames |-> <<>>]
    /\ UNCHANGED <<now, host, peer, uc, rlast, tfails, nonTransportVars>>

\* lines 122-123 and ensure_connected: go on when connected and a socket
\* exists, else connect(); raise ConnectionError when that fails
SendEnter ==
    /\ tpc = "L122"
    /\ IF uc.connected /\ uc.sock # "None"
       THEN /\ tpc' = "L125"
            /\ UNCHANGED <<uc, peer, tfails, tdepth, tcall>>
       ELSE /\ ConnectStep(uc, now)
            /\ IF host = "up"
               THEN tpc' = "L125" /\ UNCHANGED <<tdepth, tcall>>
               ELSE Finish("ConnectionError", 0, 0)
    /\ UNCHANGED <<now, host, terr, rlast, nonTransportVars>>

\* a _check_heartbeat without its try / except: the exception of a failed
\* exchange reaches line 155
SendHeartbeatUnguarded ==
    /\ tpc = "L125"
    /\ \E ok \in HeartbeatReplies(peer) :
          /\ uc' = Heartbeat(uc, now, ok)
          /\ IF HeartbeatDue(uc, now) /\ ~ok
             THEN /\ tpc' = "L155"
                  /\ terr' = "Failed to send data"
                  /\ tcall' = [tcall EXCEPT !.hb = "failed",
                                            !.frames = <<"heartbeat">>]
             ELSE /\ tpc' = "L136"
                  /\ terr' = terr
                  /\ tcall' = [tcall EXCEPT
                        !.hb = IF HeartbeatDue(uc, now) THEN "ok" ELSE "notdue",
                        !.frames = IF HeartbeatDue(uc, now)
                                   THEN <<"heartbeat">> ELSE <<>>]
    /\ UNCHANGED <<now, host, peer, tdepth, rlast, tfails, nonTransportVars>>

\* line 128, _check_heartbeat (lines 273-282): when due, write the
\* heartbeat frame and read its reply; an exception is logged and dropped
SendHeartbeat ==
    /\ tpc = "L125"
    /\ \E ok \in HeartbeatReplies(peer) :
          /\ uc' = Heartbeat(uc, now, ok)
          /\ tcall' = [tcall EXCEPT
                !.hb = IF ~HeartbeatDue(uc, now) THEN "notdue"
                       ELSE IF ok THEN "ok" ELSE "failed",
                !.frames = IF HeartbeatDue(uc, now)
                           THEN <<"heartbeat">> ELSE <<>>]
    /\ tpc' = "L136"
    /\ UNCHANGED <<now, host, peer, terr, tdepth, rlast, tfails,
                   nonTransportVars>>

\* lines 130-144 on a live connection: send the frame, receive the reply
\* frame, parse it, return it (through every nested call)
SendExchangeOk ==
    /\ tpc = "L136"
    /\ peer = "alive"
    /\ Finish("ok", 1, 0)
    /\ UNCHANGED <<now, host, peer, uc, terr, rlast, tfails, nonTransportVars>>

\* lines 130-153 on a live connection whose reply is no JSON: the
\* ConnectionError of line 153 is an OSError, so line 155 catches it
SendExchangeBad ==
    /\ tpc = "L136"
    /\ peer = "alive"
    /\ tpc' = "L155"
    /\ terr' = "Failed to parse response"
    /\ tcall' = [tcall EXCEPT !.sends = @ + 1,
                              !.frames = Append(@, "command")]
    /\ UNCHANGED <<now, host, peer, uc, tdepth, rlast, tfails,
                   nonTransportVars>>

\* lines 130-139 on a connection the host dropped: the send or the
\* receive raises ConnectionError, which line 155 catches
SendExchangeFail ==
    /\ tpc = "L136"
    /\ peer \in DropModes
    /\ \E text \in SocketErrors(peer) : terr' = text
    /\ tpc' = "L155"
    /\ tcall' = [tcall EXCEPT !.sends = @ + 1,
                              !.frames = Append(@, "command")]
    /\ UNCHANGED <<now, host, peer, uc, tdepth, rlast, tfails,
                   nonTransportVars>>

\* lines 155-174 for a message without a reset code: raise ConnectionError
SendErrorRaise ==
    /\ tpc = "L155"
    /\ ~HasResetCode(terr)
    /\ Finish("ConnectionError", 0, 0)
    /\ UNCHANGED <<now, host, peer, uc, terr, rlast, tfails, nonTransportVars>>

\* lines 155-174 for a message with a reset code: reconnect(), and when it
\* returns True call send_command again (line 172), else raise
SendErrorReconnect ==
    /\ tpc = "L155"
    /\ HasResetCode(terr)
    /\ \E ret \in BOOLEAN :
          /\ ReconnectBody(ret)
          /\ IF ret /\ tdepth < MaxDepth
             THEN /\ tpc' = "L122"
                  /\ tdepth' = tdepth + 1
                  /\ tcall' = [tcall EXCEPT !.resets = @ + 1,
                                            !.reconnects = @ + 1,
                                            !.hb = "none",
                                            !.frames = <<>>]
             ELSE Finish(IF ret THEN "RecursionError" ELSE "ConnectionError",
                         0, 1)
    /\ UNCHANGED <<host, terr, nonTransportVars>>

\* the steps of a caller that keeps sending commands
Caller ==
    \/ SendCommand
    \/ SendEnter
    \/ SendHeartbeat
    \/ SendExchangeOk
    \/ SendExchangeFail
    \/ SendErrorRaise
    \/ SendErrorReconnect

InitTransport ==
    /\ now = 0
    /\ AsyncInit
    /\ BatchInit
    /\ CacheInit(TRUE, "UnityConnection")
    /\ \E h \in {"up", "down"} : TransportInit(h)
    /\ WireInit
    /\ FramingInit
    /\ PairInit

NextTransport ==
    \/ Tick
    \/ \E mode \in DropModes : HostDrop(mode)
    \/ HostUp
    \/ Connect
    \/ Disconnect
    \/ Reconnect
    \/ Caller
    \/ SendExchangeBad

SpecTransport == InitTransport /\ [][NextTransport]_vars

\* a host that goes away and comes back, with well-formed replies, and a
\* caller that keeps sending commands
NextRestart ==
    \/ Tick
    \/ \E mode \in DropModes : HostDrop(mode)
    \/ HostUp
    \/ Caller

SpecRestart == InitTransport /\ [][NextRestart]_vars /\ WF_vars(Caller)

(* -------------------------- claims on the transport -------------------- *)

\* C15: reconnect_attempts counts the connect() calls that failed since
\* the last one succeeded; once maxReconnectAttempts of them failed in a
\* row, a reconnect() call returns False without disconnecting, sleeping
\* or connecting and leaves the connection as it was, and the count only
\* falls below the bound again through a connect() that succeeds.
C15_ReconnectBound ==
    /\ [](tfails = uc.reconnect_attempts)
    /\ []((rlast.valid /\ rlast.attempts >= MaxReconnectAttempts) =>
             /\ rlast.ret = FALSE
             /\ ~rlast.disconnected
             /\ rlast.slept = 0
             /\ rlast.connects = 0)
    /\ [][(tfails >= MaxReconnectAttempts /\ rlast' # rlast) =>
             /\ rlast'.attempts = tfails
             /\ rlast'.ret = FALSE
             /\ UNCHANGED <<uc, peer, tfails, now>>]_vars
    /\ [][(tfails >= MaxReconnectAttempts
             /\ tfails' < MaxReconnectAttempts) =>
             /\ tfails' = 0
             /\ uc'.connected
             /\ uc'.sock = "socket"
             /\ peer' = "alive"]_vars

\* reconnect() refused after maxReconnectAttempts failed connects, though
\* the host was accepting connections again
C15_Witness ==
    /\ tfails = MaxReconnectAttempts
    /\ rlast.valid
    /\ rlast.attempts = MaxReconnectAttempts
    /\ rlast.ret = FALSE
    /\ rlast.connects = 0
    /\ host = "up"
    /\ ~uc.connected

\* C16: one outermost send_command call makes at most one reconnect()
\* call and sends its command at most twice (the send and one retry).
C16_OneReconnectOneRetry ==
    tcall.valid => (tcall.reconnects <= 1 /\ tcall.sends <= 2)

\* C17: once the host stays up, a caller that keeps sending commands gets
\* replies again: send_command calls keep returning a reply.
C17_UsableAfterRestart ==
    <>[](host = "up") => []<>(tcall.outcome = "ok")

(* ------------- two callers of send_command on one connection ----------- *)
(* send_command takes no lock: each sendall and each _receive_data call    *)
(* of a caller is a step other callers' steps may come between.            *)

\* the length prefix, the payload of caller c's frame (of the host's
\* reply to c when it is in inbound)
LengthOf(c) == [by |-> c, part |-> "len"]
PayloadOf(c) == [by |-> c, part |-> "body"]

\* line 216: self.sock.sendall(length.to_bytes(4, byteorder='little'))
WireSendLength(c) ==
    /\ spc[c] = "idle"
    /\ Len(wire) + 2 <= 2 * MaxWireFrames
    /\ wire' = Append(wire, LengthOf(c))
    /\ spc' = [spc EXCEPT ![c] = "L219"]
    /\ UNCHANGED <<inbound, hostAt, hostGarbled, slen, sgot, nonWireVars>>

\* line 219: self.sock.sendall(data_bytes)
WireSendPayload(c) ==
    /\ spc[c] = "L219"
    /\ wire' = Append(wire, PayloadOf(c))
    /\ spc' = [spc EXCEPT ![c] = "L260"]
    /\ UNCHANGED <<inbound, hostAt, hostGarbled, slen, sgot, nonWireVars>>

\* the host reads a length prefix and what follows it: for a caller's
\* prefix followed by that caller's payload it writes the reply frame,
\* else it has read a garbled frame and answers no more
HostReply ==
    /\ ~hostGarbled
    /\ hostAt + 2 <= Len(wire)
    /\ hostAt' = hostAt + 2
    /\ LET first  == wire[hostAt + 1]
           second == wire[hostAt + 2]
       IN  IF first.part = "len" /\ second = PayloadOf(first.by)
           THEN /\ inbound' = inbound \o <<LengthOf(first.by),
                                           PayloadOf(first.by)>>
                /\ UNCHANGED hostGarbled
           ELSE /\ hostGarbled' = TRUE
                /\ UNCHANGED inbound
    /\ UNCHANGED <<wire, spc, slen, sgot, nonWireVars>>

\* line 260: length_bytes = self._receive_data(4)
WireRecvLength(c) ==
    /\ spc[c] = "L260"
    /\ inbound # <<>>
    /\ slen' = [slen EXCEPT ![c] = IF Head(inbound).part = "len"
                                    THEN Head(inbound).by ELSE 0]
    /\ inbound' = Tail(inbound)
    /\ spc' = [spc EXCEPT ![c] = "L264"]
    /\ UNCHANGED <<wire, hostAt, hostGarbled, sgot, nonWireVars>>

\* lines 264-267 and 143-144: response_bytes = self._receive_data(length),
\* decode, parse, return: the reply of caller b when the call read b's
\* prefix and b's payload, 0 when it read anything else
WireRecvPayload(c) ==
    /\ spc[c] = "L264"
    /\ inbound # <<>>
    /\ sgot' = [sgot EXCEPT ![c] =
                   Append(@, IF Head(inbound) = PayloadOf(slen[c])
                             THEN slen[c] ELSE 0)]
    /\ inbound' = Tail(inbound)
    /\ spc' = [spc EXCEPT ![c] = "idle"]
    /\ UNCHANGED <<wire, hostAt, hostGarbled, slen, nonWireVars>>

NextWire ==
    \/ \E c \in Callers :
          \/ WireSendLength(c)
          \/ WireSendPayload(c)
          \/ WireRecvLength(c)
          \/ WireRecvPayload(c)
    \/ HostReply

SpecWire == Init /\ [][NextWire]_vars

\* every prefix on the wire is followed by the payload of the same caller
WellFramed(w) ==
    \A k \in DOMAIN w :
        IF k % 2 = 1
        THEN /\ w[k].part = "len"
             /\ k + 1 <= Len(w) => w[k + 1] = PayloadOf(w[k].by)
        ELSE w[k].part = "body"

\* C18: the length prefix and the payload of one caller's frame are never
\* separated by another caller's bytes, and every send_command call
\* returns the reply to its own command.
C18_SerializedIO ==
    /\ WellFramed(wire)
    /\ \A c \in Callers : \A k \in DOMAIN sgot[c] : sgot[c][k] = c

(* ------------------------ framing on a byte stream --------------------- *)
(* A string is a sequence of characters, a frame a sequence of bytes.      *)

\* the characters of the strings sent: one of one byte, one of two
Chars == {"a", "eacute"}

\* the strings handed to _send_data
Strings == UNION {[1..n -> Chars] : n \in 0..MaxPayload}

\* str.encode('utf-8')
RECURSIVE Encode(_)
Encode(str) ==
    IF str = <<>> THEN <<>>
    ELSE (IF Head(str) = "a" THEN <<97>> ELSE <<195, 169>>)
         \o Encode(Tail(str))

\* bytes.decode('utf-8'); "invalid" stands for the UnicodeDecodeError
RECURSIVE Decode(_)
Decode(b) ==
    IF b = <<>> THEN <<>>
    ELSE IF b[1] = 97 THEN <<"a">> \o Decode(Tail(b))
    ELSE IF b[1] = 195 /\ Len(b) >= 2 /\ b[2] = 169
         THEN <<"eacute">> \o Decode(SubSeq(b, 3, Len(b)))
    ELSE <<"invalid">>

\* a length prefix with the most significant byte first
ToBytesBigEndian(n) ==
    <<(n \div 16777216) % 256, (n \div 65536) % 256, (n \div 256) % 256,
      n % 256>>

\* line 216: length.to_bytes(4, byteorder='little')
ToBytes(n) ==
    <<n % 256, (n \div 256) % 256, (n \div 65536) % 256,
      (n \div 16777216) % 256>>

\* line 261: int.from_bytes(length_bytes, byteorder='little')
FromBytes(b) == b[1] + 256 * b[2] + 65536 * b[3] + 16777216 * b[4]

\* _send_data, lines 214-219: the length of the encoded string in four
\* bytes, then the encoded string
FrameSend(str) ==
    /\ Len(fsent) < MaxFrames
    /\ fsent' = Append(fsent, str)
    /\ fstream' = fstream \o ToBytes(Len(Encode(str))) \o Encode(str)
    /\ UNCHANGED <<fpc, fsize, fdata, fgot, fread, fsplit, nonFramingVars>>

\* _receive_full_response is called, line 260: _receive_data(4)
FrameReceive ==
    /\ fpc = "idle"
    /\ Len(fgot) < MaxFrames
    /\ fpc' = "L260"
    /\ fsize' = 4
    /\ fdata' = <<>>
    /\ UNCHANGED <<fsent, fstream, fgot, fread, fsplit, nonFramingVars>>

\* lines 240-244: chunk = self.sock.recv(size - len(data)) gives between
\* one byte and as many as were asked for; data += chunk
FrameRecv ==
    /\ fpc \in {"L260", "L264"}
    /\ Len(fdata) < fsize
    /\ fstream # <<>>
    /\ \E n \in 1..Smaller(fsize - Len(fdata), Len(fstream)) :
          /\ fdata' = fdata \o SubSeq(fstream, 1, n)
          /\ fstream' = SubSeq(fstream, n + 1, Len(fstream))
          /\ fread' = fread + n
          /\ fsplit' = (fsplit \/ n < fsize - Len(fdata))
    /\ UNCHANGED <<fsent, fpc, fsize, fgot, nonFramingVars>>

\* lines 261-264: the four bytes are there; _receive_data(length)
FrameLength ==
    /\ fpc = "L260"
    /\ Len(fdata) = fsize
    /\ fpc' = "L264"
    /\ fsize' = FromBytes(fdata)
    /\ fdata' = <<>>
    /\ UNCHANGED <<fsent, fstream, fgot, fread, fsplit, nonFramingVars>>

\* lines 245 and 267: the payload is there; return it decoded
FrameDecode ==
    /\ fpc = "L264"
    /\ Len(fdata) = fsize
    /\ fgot' = Append(fgot, Decode(fdata))
    /\ fpc' = "idle"
    /\ UNCHANGED <<fsent, fstream, fsize, fdata, fread, fsplit,
                   nonFramingVars>>

NextFraming ==
    \/ \E str \in Strings : FrameSend(str)
    \/ FrameReceive
    \/ FrameRecv
    \/ FrameLength
    \/ FrameDecode

SpecFraming == Init /\ [][NextFraming]_vars

\* the bytes of the first k frames sent
RECURSIVE BytesOfFrames(_, _)
BytesOfFrames(sent, k) ==
    IF k = 0 THEN 0
    ELSE BytesOfFrames(sent, k - 1) + 4 + Len(Encode(sent[k]))

\* C19: the strings received are the strings sent, in order and exact
\* (the empty string included), however the stream cuts the bytes into
\* chunks; each frame takes exactly 4 + length bytes from the stream, and
\* the length read from a prefix is the byte length of the string sent.
C19_FramingRoundTrip ==
    /\ Len(fgot) <= Len(fsent)
    /\ \A k \in DOMAIN fgot : fgot[k] = fsent[k]
    /\ fpc = "idle" => fread = BytesOfFrames(fsent, Len(fgot))
    /\ fpc = "L260" =>
          fread = BytesOfFrames(fsent, Len(fgot)) + Len(fdata)
    /\ fpc = "L264" =>
          /\ Len(fgot) < Len(fsent)
          /\ fsize = Len(Encode(fsent[Len(fgot) + 1]))
          /\ fread = BytesOfFrames(fsent, Len(fgot)) + 4 + Len(fdata)

\* a string with a two-byte character and the empty string were sent and
\* received, some recv call having returned part of what was asked for
C19_Witness ==
    /\ fpc = "idle"
    /\ Len(fgot) = 2
    /\ fgot[1] = <<"eacute", "a">>
    /\ fgot[2] = <<>>
    /\ fsplit
    /\ fstream = <<>>
    /\ fread = 11

(* ------------------- claims on the operation record -------------------- *)

\* C20: in every state, an operation whose status is completed or failed
\* has completion_time set and progress 1.0, and an operation whose
\* status is cancelled has completion_time set.
C20_TerminalFieldsSet ==
    \A id \in DOMAIN operations :
        /\ operations[id].status \in {"completed", "failed"} =>
              /\ operations[id].completion_time # NoTime
              /\ operations[id].progress = 10
        /\ operations[id].status = "cancelled" =>
              operations[id].completion_time # NoTime

(* ------------------ an operation that is never cancelled --------------- *)

\* one operation and its worker thread, which the interpreter keeps
\* scheduling; nobody calls cancel_operation
NextAsyncRun ==
    \/ Tick
    \/ \E ct \in CommandTypes : operations = <<>> /\ StartOperation(ct)
    \/ \E id \in OpIds : Worker(id)

SpecAsyncRun ==
    Init /\ [][NextAsyncRun]_vars /\ WF_vars(\E id \in OpIds : Worker(id))

\* what get_async_status reports once the operation is over
ShowsFinished(id) ==
    /\ id \in DOMAIN operations
    /\ operations[id].status \in {"completed", "failed"}
    /\ operations[id].completion_time # NoTime
    /\ operations[id].progress = 10

\* the status becomes completed or failed only from running, with the
\* progress between 0 and 1
EndsFromRunning ==
    \A id \in DOMAIN operations :
        (/\ operations'[id].status \in {"completed", "failed"}
         /\ operations'[id].status # operations[id].status)
        => /\ operations[id].status = "running"
           /\ operations[id].progress \in 0..10

\* C21: every started operation that is never cancelled, its handler
\* returning or raising and its worker being scheduled fairly, eventually
\* shows a terminal status (completed or failed) with the completion time
\* set and progress 1.0, and shows status running with a progress between
\* 0 and 1 before that.
C21_EventuallyFinished ==
    /\ \A id \in OpIds : (id \in DOMAIN operations) ~> ShowsFinished(id)
    /\ [][EndsFromRunning]_vars

C21_Witness ==
    /\ ShowsFinished(1)
    /\ operations[1].status = "failed"
    /\ handlerCalls[1] = 1
    /\ wpc[1] = "exit"

(* ------------- start_operation, line by line, and two workers ---------- *)

\* the types start_operation is called with
StartTypes == {<<"ping">>, <<"unknown">>, <<>>}

startFrame == <<now, wi, wlocal, handlerCalls, asyncGhost, queryVars,
                nonAsyncVars>>

\* a start_operation without the check of lines 181-182
StartCallAcceptsEmpty(ct) ==
    /\ stpc = "idle"
    /\ Len(operations) < Cardinality(OpIds)
    /\ stct' = ct
    /\ stid' = NoOp
    /\ sret' = NoStart
    /\ stpc' = "L185"
    /\ UNCHANGED <<operations, wpc, startFrame>>

\* lines 181-182: an empty command_type raises ValueError
StartCall(ct) ==
    /\ stpc = "idle"
    /\ Len(operations) < Cardinality(OpIds)
    /\ stct' = ct
    /\ stid' = NoOp
    /\ IF ct = <<>>
       THEN /\ sret' = [kind |-> "ValueError", id |-> NoOp]
            /\ stpc' = "idle"
       ELSE /\ sret' = NoStart
            /\ stpc' = "L185"
    /\ UNCHANGED <<operations, wpc, startFrame>>

\* a store that begins the table afresh with the new record
StartStoreAfresh ==
    /\ stpc = "L185"
    /\ stid' = 1
    /\ operations' =
          <<[command_type |-> stct, status |-> "pending",
             creation_time |-> now, start_time |-> NoTime,
             completion_time |-> NoTime, result |-> "None",
             error |-> "None", progress |-> 0]>>
    /\ stpc' = "L206"
    /\ UNCHANGED <<wpc, stct, sret, startFrame>>

\* lines 185-203: operation_id = str(uuid.uuid4()), an id the table does
\* not hold, and the record stored under it
StartStore ==
    /\ stpc = "L185"
    /\ stid' = Len(operations) + 1
    /\ operations' = Append(operations,
          [command_type |-> stct, status |-> "pending",
           creation_time |-> now, start_time |-> NoTime,
           completion_time |-> NoTime, result |-> "None",
           error |-> "None", progress |-> 0])
    /\ stpc' = "L206"
    /\ UNCHANGED <<wpc, stct, sret, startFrame>>

\* lines 206-210: threading.Thread(...).start()
StartLaunch ==
    /\ stpc = "L206"
    /\ wpc' = [wpc EXCEPT ![stid] = "L261"]
    /\ stpc' = "L212"
    /\ UNCHANGED <<operations, stct, stid, sret, startFrame>>

\* line 212: return operation_id
StartReturn ==
    /\ stpc = "L212"
    /\ sret' = [kind |-> "id", id |-> stid]
    /\ stpc' = "idle"
    /\ UNCHANGED <<operations, wpc, stct, stid, startFrame>>

\* one caller of start_operation and the workers of the operations it starts
NextStart ==
    \/ \E ct \in StartTypes : StartCall(ct)
    \/ StartStore
    \/ StartLaunch
    \/ StartReturn
    \/ \E id \in OpIds : Worker(id)

SpecStart == Init /\ [][NextStart]_vars

\* the record as start_operation stores it
AsStored(op) ==
    /\ op.status = "pending"
    /\ op.progress = 0
    /\ op.start_time = NoTime
    /\ op.completion_time = NoTime

\* what one step of start_operation's caller and of the workers does
StartStep ==
    \* the id is new, the record is stored under it, no record is replaced,
    \* no worker runs for it yet
    /\ (stpc = "L185" /\ stpc' = "L206")
        => /\ stid' \notin DOMAIN operations
           /\ DOMAIN operations' = DOMAIN operations \cup {stid'}
           /\ \A id \in DOMAIN operations : operations'[id] = operations[id]
           /\ AsStored(operations'[stid'])
           /\ wpc'[stid'] = "none"
    \* a worker is launched only for a stored, untouched record
    /\ \A id \in OpIds :
        (wpc[id] = "none" /\ wpc'[id] # "none")
        => /\ id \in DOMAIN operations
           /\ AsStored(operations[id])
           /\ id = stid
    \* the call returns the id it stored
    /\ (stpc = "L212" /\ stpc' = "idle")
        => sret' = [kind |-> "id", id |-> stid]
    \* the return waits for nothing
    /\ stpc = "L212" => ENABLED StartReturn
    \* an empty type: ValueError, no operation added, no worker launched
    /\ (stpc = "idle" /\ stct' = <<>> /\ (stct' # stct \/ sret' # sret))
        => /\ sret'.kind = "ValueError"
           /\ stpc' = "idle"
           /\ operations' = operations
           /\ wpc' = wpc

\* C22: start_operation with a non-empty type returns an id that no
\* operation of the table had, has stored the operation (pending,
\* progress 0, start and completion time unset) before its worker is
\* launched, and returns without waiting for a step of the worker; with an
\* empty type it raises without adding an operation or launching a worker.
C22_StartStoresThenLaunches == [][StartStep]_vars

\* the second start_operation has returned, its worker has not moved
C22_Witness ==
    /\ sret = [kind |-> "id", id |-> 2]
    /\ wpc[2] = "L261"
    /\ AsStored(operations[2])
    /\ 1 \in DOMAIN operations

\* every launched worker thread keeps being scheduled
SpecStartFair ==
    SpecStart /\ \A id \in OpIds : WF_vars(Worker(id))

\* a step of the worker of operation a
WorkerStepOf(a) == wpc[a] # "none" /\ wpc'[a] # wpc[a]

\* the worker of a leaves every other record as it is
OthersUntouched ==
    \A a \in OpIds :
        WorkerStepOf(a)
        => /\ DOMAIN operations' = DOMAIN operations
           /\ \A b \in DOMAIN operations \ {a} :
                  operations'[b] = operations[b]

\* the worker of b is over, with the status its own handler earned
OwnOutcome(b) ==
    /\ wpc[b] = "exit"
    /\ operations[b].status =
           IF wlocal[b] = "value" THEN "completed" ELSE "failed"

\* C23: a handler exception or an unresolved type in the worker of an
\* operation A changes only A's record: A's worker changes no field of any
\* other operation B, and B still reaches its own terminal status.
C23_FailureIsolation ==
    /\ [][OthersUntouched]_vars
    /\ \A b \in OpIds : (wpc[b] # "none") ~> OwnOutcome(b)

\* the first operation failed on its handler's exception, the second one
\* completed
C23_Witness ==
    /\ DOMAIN operations = {1, 2}
    /\ operations[1].status = "failed"
    /\ operations[1].error = "handler error"
    /\ wpc[1] = "exit"
    /\ OwnOutcome(2)
    /\ operations[2].status = "completed"
    /\ operations[2].error = "None"

(* ------------------ claims on the entry points' results ---------------- *)

\* the keys of the object the last batch_execute call returned
ReturnedKeys == DOMAIN bout \ {"kind"}

\* C24: every call of an entry point returns an object with a boolean
\* success and never raises, and an object whose success is false also has
\* an error field; stated for what batch_execute returns.
C24_FailureCarriesError ==
    bout.kind \in {"rejected", "outcome"}
    => /\ "success" \in ReturnedKeys
       /\ bout.success \in BOOLEAN
       /\ (~bout.success => "error" \in ReturnedKeys)

(* ---------------------- claims on the declared limits ------------------ *)

\* the operations that are pending or running
Unfinished ==
    {id \in DOMAIN operations : operations[id].status \in {"pending", "running"}}

\* C25: max_async_operations is a hard cap: in every reachable state the
\* number of operations that are pending or running does not exceed it, a
\* start_operation beyond the cap being rejected.
C25_AsyncOperationsCapped == Cardinality(Unfinished) <= MaxAsyncOperations

(* ------------------- claims on connect and disconnect ------------------ *)

\* a step in which connect() is called: by a caller, by reconnect() once
\* it has not refused, or by ensure_connected
ConnectCalled ==
    \/ Connect
    \/ (Reconnect \/ SendErrorReconnect) /\ rlast'.connects = 1
    \/ SendEnter /\ ~(uc.connected /\ uc.sock # "None")

\* what the connect() of a step does, and what every other step leaves
ConnectCounts ==
    IF ConnectCalled
    THEN \/ /\ uc'.reconnect_attempts = 0
            /\ uc'.connected
            /\ uc'.sock = "socket"
            /\ uc'.last_heartbeat = now'
            /\ host = "up"
         \/ /\ uc'.reconnect_attempts = uc.reconnect_attempts + 1
            /\ ~uc'.connected
            /\ uc'.sock = "None"
            /\ host = "down"
    ELSE uc'.reconnect_attempts = uc.reconnect_attempts

\* C26: reconnect_attempts is changed only by connect(): a successful
\* connect() sets it to 0 (and sets connected and the heartbeat clock), a
\* failed connect() increments it by exactly 1 and leaves the connection
\* disconnected with no socket; no other operation modifies the counter.
C26_CounterOnlyByConnect == [][ConnectCounts]_vars

\* a reconnect() entered after failed attempts has connected: the counter
\* is back at 0
C26_Witness ==
    /\ rlast.valid
    /\ rlast.ret
    /\ rlast.attempts >= 2
    /\ uc.reconnect_attempts = 0
    /\ uc.connected

\* a step in which a caller calls disconnect()
DisconnectCalled == tpc = "idle" /\ Disconnect

\* what disconnect() does, whether close() raises or not
DisconnectClean ==
    /\ DisconnectCalled
        => /\ uc'.sock = "None"
           /\ ~uc'.connected
           /\ uc'.reconnect_attempts = uc.reconnect_attempts
           /\ uc'.last_heartbeat = uc.last_heartbeat
    /\ \A closeRaises \in BOOLEAN :
        LET once == DisconnectOutcome(uc, closeRaises) IN
        /\ ~once.raised
        /\ once.conn.sock = "None"
        /\ ~once.conn.connected
        /\ \A again \in BOOLEAN :
              DisconnectOutcome(once.conn, again) =
                  [conn |-> once.conn, raised |-> FALSE]

\* C27: disconnect() always leaves the connection with no socket and
\* connected false, even when closing the socket raises; it does not raise
\* itself, and a second disconnect() changes nothing.
C27_DisconnectIdempotent == [][DisconnectClean]_vars

\* a connection that carried a command has been disconnected
C27_Witness ==
    /\ uc.sock = "None"
    /\ ~uc.connected
    /\ peer = "none"
    /\ tfails = 0
    /\ tcall.outcome = "ok"
    /\ tpc = "idle"

(* ------------------------ claims on the heartbeat ---------------------- *)

\* the caller leaves _check_heartbeat (line 128)
HeartbeatChecked == tpc = "L125" /\ tpc' # "L125"

\* the caller leaves the exchange of the command (lines 130-139)
CommandExchanged == tpc = "L136" /\ tpc' # "L136"

\* a failed heartbeat raises nothing, and the command is written and its
\* reply awaited after it
HeartbeatFailureDropped ==
    /\ (HeartbeatChecked /\ tcall'.hb = "failed")
        => /\ tpc' = "L136"
           /\ terr' = terr
           /\ tcall'.outcome = "running"
    /\ (CommandExchanged /\ tcall.hb = "failed")
        => /\ tcall'.frames = <<"heartbeat", "command">>
           /\ tcall'.sends = tcall.sends + 1
           /\ peer = "alive" => tpc' \in {"idle", "L155"}

\* C28: when the heartbeat exchange inside send_command fails (its send or
\* the read of its reply raises), send_command does not raise because of
\* it: it still writes the command frame and waits for the command's reply.
C28_HeartbeatFailureIgnored == [][HeartbeatFailureDropped]_vars

\* the heartbeat failed and the command was answered all the same
C28_Witness ==
    /\ tcall.hb = "failed"
    /\ tcall.frames = <<"heartbeat", "command">>
    /\ tcall.outcome = "ok"
    /\ tpc = "idle"

\* the frames one invocation of send_command may have written
FrameOrders ==
    {<<>>, <<"heartbeat">>, <<"command">>, <<"heartbeat", "command">>}

\* when the heartbeat is sent and when last_heartbeat moves
HeartbeatRule ==
    /\ tcall'.frames \in FrameOrders
    /\ HeartbeatChecked
        => /\ tcall'.frames =
                 IF now - uc.last_heartbeat >= HeartbeatInterval
                 THEN <<"heartbeat">> ELSE <<>>
           /\ tcall'.hb = "failed" => uc'.last_heartbeat = uc.last_heartbeat
    /\ CommandExchanged => uc'.last_heartbeat = uc.last_heartbeat
    /\ uc'.last_heartbeat # uc.last_heartbeat
        => \/ /\ ConnectCalled
              /\ uc'.connected
              /\ uc'.last_heartbeat = now'
           \/ /\ HeartbeatChecked
              /\ tcall'.hb = "ok"
              /\ uc'.last_heartbeat = now

\* C29: send_command sends a heartbeat frame, before the command frame,
\* exactly when the time since last_heartbeat has reached
\* heartbeat_interval, and at most one per send_command; last_heartbeat is
\* advanced only by a successful connect() or by a heartbeat whose reply
\* was received, so command traffic does not postpone the next heartbeat
\* and a failed heartbeat is due again at the next send_command.
C29_HeartbeatWhenDue == [][HeartbeatRule]_vars

\* a heartbeat was due, was answered and moved the clock; the command
\* followed it
C29_Witness ==
    /\ tcall.hb = "ok"
    /\ tcall.frames = <<"heartbeat", "command">>
    /\ uc.last_heartbeat = now
    /\ now >= HeartbeatInterval
    /\ tpc = "idle"

(* ----------------- claims on an operation of unknown type -------------- *)

\* the operations whose type no registered tool answers
Unresolved ==
    {id \in DOMAIN operations : ~Resolves(operations[id].command_type)}

\* the message is not empty and ends with the text of the type
NamesType(err, ct) ==
    /\ err \notin {"", "None"}
    /\ \E head \in {"Unknown command type: "} : err = head \o TypeText(ct)

\* the worker is over: failed, with an error that names the type
FailedUnknown(id) ==
    /\ wpc[id] = "exit"
    /\ operations[id].status = "failed"
    /\ operations[id].result = "None"
    /\ NamesType(operations[id].error, operations[id].command_type)

EmptyId == 0 - 2

\* the ids a client asks about
QueryIds == OpIds \cup {NoOp, EmptyId}

\* the status filters list_async_operations is called with
StatusFilters == {"None", "running", "failed"}

\* batch_tools.py lines 175-179: the runtime get_async_status and
\* list_async_operations report at time t.  (None is NoTime; the clock of
\* the model starts at 0, which stands for a time.time() value, not for
\* a falsy one.)
Runtime(op, t) ==
    IF op.start_time # NoTime
    THEN (IF op.completion_time # NoTime THEN op.completion_time ELSE t)
         - op.start_time
    ELSE 0

\* the one client thread is between two calls
ClientIdle == cpc = "idle" /\ lpc = "idle" /\ stpc = "idle"

queryFrame == <<now, operations, wpc, wi, wlocal, handlerCalls, asyncGhost,
                startVars, nonAsyncVars>>

\* get_async_status(id), batch_tools.py lines 165-212, with get_operation
\* (batch_operations.py lines 224-227): an empty id is rejected, an unknown
\* id raises ValueError, which line 198 turns into an error result
GetStatus(id) ==
    /\ ClientIdle
    /\ gout' = IF id = EmptyId
               THEN [kind |-> "error", success |-> FALSE,
                     error |-> "Operation ID is required", id |-> id]
               ELSE IF id \notin DOMAIN operations
               THEN [kind |-> "error", success |-> FALSE,
                     error |-> "No operation found", id |-> id]
               ELSE [kind |-> "operation", success |-> TRUE, id |-> id,
                     runtime |-> Runtime(operations[id], now)]
    /\ lout' = NoAnswer
    /\ UNCHANGED <<lpc, lfilter, lsize, queryFrame>>

\* list_async_operations(status), lines 304-310: the loop over
\* self.operations.items() begins
ListBegin(st) ==
    /\ ClientIdle
    /\ lpc' = "iter"
    /\ lfilter' = st
    /\ lsize' = Len(operations)
    /\ lout' = NoAnswer
    /\ gout' = NoAnswer
    /\ UNCHANGED queryFrame

\* the ids whose status passes the filter (line 311), in the dict's order
RECURSIVE Matching(_, _)
Matching(st, n) ==
    IF n = 0 THEN <<>>
    ELSE IF st = "None" \/ operations[n].status = st
         THEN Append(Matching(st, n - 1), n)
         ELSE Matching(st, n - 1)

\* lines 310-348: the loop ends.  When start_operation stored a record in
\* the meantime the iteration may raise RuntimeError (dictionary changed
\* size during iteration), which line 334 turns into an error result.
ListEnd ==
    /\ lpc = "iter"
    /\ lpc' = "idle"
    /\ \E raised \in IF Len(operations) # lsize THEN {TRUE, FALSE} ELSE {FALSE} :
          lout' = IF raised
                  THEN [kind |-> "error", success |-> FALSE,
                        error |-> "Error listing async operations"]
                  ELSE [kind |-> "operations", success |-> TRUE,
                        ids |-> Matching(lfilter, Len(operations)),
                        count |-> Len(Matching(lfilter, Len(operations)))]
    /\ UNCHANGED <<gout, lfilter, lsize, queryFrame>>

\* the client has not asked for or listed operations yet
NotAsked == gout = NoAnswer /\ lout = NoAnswer

\* a client thread that starts operations, cancels until a cancellation
\* succeeds, and asks for or lists operations once; and the workers of the
\* operations
NextQuery ==
    \/ \E ct \in StartTypes : ClientIdle /\ StartCall(ct)
    \/ StartStore \/ StartLaunch \/ StartReturn
    \/ \E id \in OpIds : Worker(id)
    \/ ClientIdle /\ (\A id \in OpIds : ~cancelOk[id]) /\ Cancel
    \/ CancelSetStatus \/ CancelSetTime \/ CancelReturn
    \/ \E id \in QueryIds : NotAsked /\ GetStatus(id)
    \/ \E st \in StatusFilters : NotAsked /\ ListBegin(st)
    \/ ListEnd

SpecQuery == Init /\ [][NextQuery]_vars

(* ------------------ claims on cancel, get and list --------------------- *)

\* a step of the caller of cancel_operation
CancelStep == cpc' # cpc

\* the record with the two fields cancel_operation may write blanked
Uncancelled(op) == [op EXCEPT !.status = "pending", !.completion_time = NoTime]

\* what the steps of cancel_operation, get_async_status and
\* list_async_operations leave as it is
CancelFrame ==
    /\ CancelStep
        => /\ DOMAIN operations' = DOMAIN operations
           /\ wpc' = wpc
           /\ \A id \in DOMAIN operations :
                 IF id = cid /\ cpc \in {"L245", "L246"}
                 THEN Uncancelled(operations'[id]) = Uncancelled(operations[id])
                 ELSE operations'[id] = operations[id]
    \* the steps of a call that returns False
    /\ (CancelStep /\ (cpc' \in {"L240", "L249"} \/ cpc \in {"L240", "L249"}))
        => operations' = operations
    /\ (CancelStep /\ cpc' = "idle")
        => cret' = IF cpc = "L247" THEN "True" ELSE "False"
    /\ (gout' # gout \/ lout' # lout \/ lpc' # lpc)
        => operations' = operations /\ wpc' = wpc

\* C31: cancel_operation(id) changes at most the status and the
\* completion time of operation id: its result, error, progress, start
\* time and type, and every field of every other operation, are unchanged;
\* a cancel that returns False changes nothing; get and list change nothing.
C31_CancelTouchesTwoFields == [][CancelFrame]_vars

\* the first of two operations was cancelled half-way, and the client has
\* listed the operations since
C31_Witness ==
    /\ DOMAIN operations = {1, 2}
    /\ cret = "True"
    /\ cid = 1
    /\ operations[1].status = "cancelled"
    /\ operations[1].progress \in 1..9
    /\ lout.kind = "operations"
    /\ lout.count = 2

(* ------------------- claims on what the cache holds -------------------- *)

\* the cache changes only in the return of a send_command whose reply has
\* success true, for a cacheable type, with caching enabled
CacheChange ==
    command_cache' # command_cache
    => /\ hpc = "sending"
       /\ enable_caching
       /\ IsCacheable(hcmd.type)
       /\ last'.sends = 1
       /\ last'.result.kind = "reply"
       /\ last'.result.success = "True"

\* every entry belongs to a cacheable type and holds a reply with success
\* true
EntriesSucceeded ==
    \A k \in DOMAIN command_cache :
        /\ IsCacheable(command_cache[k].key[1])
        /\ command_cache[k].result.kind = "reply"
        /\ command_cache[k].result.success = "True"

\* C32: the cache is modified only by a handle call on a cacheable type,
\* with caching enabled, whose reply has success == true; every other
\* handle call leaves the cache unchanged, so every stored entry belongs
\* to a cacheable type and holds a success = true result.
C32_CacheOnlyOnSuccess == [][CacheChange]_vars /\ []EntriesSucceeded

(* ------------------------ claims on the cache key ---------------------- *)

\* parameter dicts that differ from ParamsAB in one value, and in one key
ParamsABlue == << <<1, "cube">>, <<2, "blue">> >>
ParamsA == << <<1, "cube">> >>

\* the types and the parameter dicts the key is computed for
KeyTypes == {"get_object_info", "get_scene_info", "create_object"}
KeyParams ==
    {NoParams, ParamsAB, ParamsBA, ParamsOther, ParamsABlue, ParamsA}

\* two commands have one key exactly when they have one type and equal
\* parameters
KeyRule ==
    \A s, t \in KeyTypes : \A p, q \in KeyParams :
        GetCacheKey(s, p) = GetCacheKey(t, q) <=> (s = t /\ SameParams(p, q))

\* the entries of the cache a command may be served from
EntriesFor(cache, cmd) ==
    {k \in DOMAIN cache :
        /\ cache[k].key[1] = cmd.type
        /\ SameParams(cache[k].key[2], cmd.parameters)}

\* a reply that is stored is stored under the type and the parameters of
\* the command that was sent, and a result served from the cache is the
\* result of the one entry with the type and the parameters asked for
KeyStep ==
    /\ (hpc = "sending" /\ hpc' = "idle" /\ last'.stamp # NoTime) =>
          \A k \in DOMAIN command_cache' :
              command_cache'[k].result = last'.result
              => k \in EntriesFor(command_cache', hcmd)
    /\ (last' # last /\ last'.sends = 0) =>
          /\ Cardinality(EntriesFor(command_cache, last'.cmd)) = 1
          /\ \A k \in DOMAIN command_cache :
                command_cache[k].result = last'.result
                <=> k \in EntriesFor(command_cache, last'.cmd)

\* every command with the type and the parameters of an entry, in any key
\* order, has the entry's key, and no two entries have one key
KeysTellEntries ==
    /\ \A k \in DOMAIN command_cache : \A cmd \in Commands :
          k \in EntriesFor(command_cache, cmd)
          <=> command_cache[k].key = GetCacheKey(cmd.type, cmd.parameters)
    /\ \A j, k \in DOMAIN command_cache :
          command_cache[j].key = command_cache[k].key => j = k

\* C33: the cache key depends only on the command type and on the content
\* of the parameters: two commands with the same type and equal parameters,
\* in any key order, hit the same entry, two commands that differ in type
\* or in a parameter value never share an entry, and a cache hit never
\* returns a result fetched for different parameters.
C33_KeyIsTypeAndParameters ==
    [](KeyRule /\ KeysTellEntries) /\ [][KeyStep]_vars

\* a reply fetched for one key order is served to the other key order while
\* the cache also holds an entry of the same type for another value
C33_Witness ==
    /\ last.valid
    /\ last.sends = 0
    /\ last.cmd.parameters = ParamsBA
    /\ Len(command_cache) = 2
    /\ \E j, k \in DOMAIN command_cache :
          /\ command_cache[j].key = <<"get_object_info", ParamsAB>>
          /\ command_cache[j].result = last.result
          /\ command_cache[k].key = <<"get_object_info", ParamsOther>>

(* --------------- one caller and the replies of the host ---------------- *)
(* The socket has a timeout (line 47): a read that finds no reply raises,  *)
(* the socket stays open, and the reply may still arrive.  The host        *)
(* answers the frames in the order it reads them.                          *)

\* send_command on a connected object, lines 122-133: _check_heartbeat
\* writes a heartbeat frame when it is due, else the command frame is
\* written
PairCall ==
    /\ ppc = "idle"
    /\ Len(pgot) < MaxPairCalls
    /\ pcur' = now
    /\ IF HeartbeatDue([last_heartbeat |-> pbeat], now)
       THEN /\ psent' = Append(psent, "heartbeat")
            /\ ppc' = "L277"
       ELSE /\ psent' = Append(psent, "command")
            /\ ppc' = "L136"
    /\ UNCHANGED <<now, pinbound, phostAt, pbeat, pgot, nonPairVars>>

\* the host reads the next frame and writes its reply
PairHostReply ==
    /\ phostAt < Len(psent)
    /\ phostAt' = phostAt + 1
    /\ pinbound' = Append(pinbound, phostAt + 1)
    /\ UNCHANGED <<now, psent, ppc, pcur, pbeat, pgot, nonPairVars>>

\* lines 277-279 and 130-133: the heartbeat's read returns the next reply
\* frame, last_heartbeat is set, the command frame is written
PairHeartbeatRead ==
    /\ ppc = "L277"
    /\ pinbound # <<>>
    /\ pinbound' = Tail(pinbound)
    /\ pbeat' = pcur
    /\ psent' = Append(psent, "command")
    /\ ppc' = "L136"
    /\ UNCHANGED <<now, phostAt, pcur, pgot, nonPairVars>>

\* lines 277, 280-281 and 130-133: the heartbeat's read times out, the
\* exception is logged, the command frame is written
PairHeartbeatTimeout ==
    /\ ppc = "L277"
    /\ pinbound = <<>>
    /\ psent' = Append(psent, "command")
    /\ ppc' = "L136"
    /\ UNCHANGED <<now, pinbound, phostAt, pcur, pbeat, pgot, nonPairVars>>

\* lines 136-144: the command's read returns the next reply frame, which
\* is parsed and returned
PairRead ==
    /\ ppc = "L136"
    /\ pinbound # <<>>
    /\ pgot' = Append(pgot, [frame |-> Len(psent), reply |-> Head(pinbound)])
    /\ pinbound' = Tail(pinbound)
    /\ ppc' = "idle"
    /\ UNCHANGED <<now, psent, phostAt, pcur, pbeat, nonPairVars>>

\* lines 136, 155-174: the command's read times out, send_command raises
\* ConnectionError and the socket stays open
PairTimeout ==
    /\ ppc = "L136"
    /\ pinbound = <<>>
    /\ pgot' = Append(pgot, [frame |-> Len(psent), reply |-> 0])
    /\ ppc' = "idle"
    /\ UNCHANGED <<now, psent, pinbound, phostAt, pcur, pbeat, nonPairVars>>

NextPairing ==
    \/ Tick
    \/ PairCall
    \/ PairHostReply
    \/ PairHeartbeatRead
    \/ PairHeartbeatTimeout
    \/ PairRead
    \/ PairTimeout

SpecPairing == Init /\ [][NextPairing]_vars

\* C34: every value send_command returns is the reply the host produced
\* for that call's own command frame, also after a heartbeat whose frame
\* was sent and whose reply was not read: the command that follows does not
\* return the heartbeat's reply, and later commands are not shifted by one
\* reply.
C34_RepliesPaired ==
    \A k \in DOMAIN pgot :
        pgot[k].reply # 0 => pgot[k].reply = pgot[k].frame

(* --------------------- claims on the recorded times -------------------- *)

\* C35: in every reachable state, an operation whose start_time and
\* completion_time are both set has start_time <= completion_time, so the
\* runtime get_async_status and list_async_operations report is never
\* negative; this includes operations cancelled while still pending.
C35_StartNotAfterCompletion ==
    \A id \in DOMAIN operations :
        LET op == operations[id]
        IN  /\ (op.start_time # NoTime /\ op.completion_time # NoTime)
                  => op.start_time <= op.completion_time
            /\ Runtime(op, now) >= 0

(* ------------------ claims on the age of a cache entry ----------------- *)

\* every entry carries the time its reply was stored
StampedWhenStored ==
    \A k \in DOMAIN command_cache :
        command_cache[k].timestamp = command_cache[k].result.at

\* a call served from the cache returns a result stored less than cacheTtl
\* before the call, and leaves the cache as it was
ServedYoung ==
    (last' # last /\ last'.sends = 0) =>
        /\ last'.stamp = last'.result.at
        /\ last'.issued < last'.result.at + CacheTtl
        /\ command_cache' = command_cache

\* C36: the age of an entry is measured from the time it was stored, and a
\* cache hit does not refresh it: a result stored at time t is never
\* returned by handle at a time >= t + cacheTtl, however often it was hit
\* in between.
C36_StalenessBound == []StampedWhenStored /\ [][ServedYoung]_vars

\* an entry stored at time 0 was served at a later time, and at the time
\* cacheTtl it still carries the time stamp 0 and is no longer fresh
C36_Witness ==
    /\ last.valid
    /\ last.sends = 0
    /\ last.stamp = 0
    /\ last.issued > 0
    /\ now = CacheTtl
    /\ \E k \in DOMAIN command_cache :
          /\ command_cache[k].result = last.result
          /\ command_cache[k].timestamp = 0
          /\ ~Fresh(command_cache[k], now)

(* ------------- the cache and a host that becomes unreachable ----------- *)

\* handle's return when the remote host may be unreachable: send_command
\* then raises ConnectionError
HandleReturnHost ==
    \/ host = "up" /\ HandleReturnOf(SendOutcomes)
    \/ host = "down" /\ HandleReturnOf({"raises"})

NextOffline ==
    \/ \E mode \in DropModes : HostDrop(mode)
    \/ HostUp
    \/ \E cmd \in Commands : HandleCall(cmd)
    \/ HandleReturnHost

SpecOffline == InitCache /\ [][NextOffline]_vars

\* the command has an entry that has not expired
HasFreshEntry(cmd) ==
    /\ enable_caching
    /\ IsCacheable(cmd.type)
    /\ \E k \in DOMAIN command_cache :
          /\ command_cache[k].key = GetCacheKey(cmd.type, cmd.parameters)
          /\ Fresh(command_cache[k], now)

\* a call for a command with a fresh entry returns that entry's result and
\* touches neither the handler's connection nor the connection object, and
\* makes no send_command call; a send_command call is made only for a
\* command without a fresh entry
HitStep ==
    /\ (last' # last /\ HasFreshEntry(last'.cmd) /\ hpc = "idle") =>
          /\ last'.sends = 0
          /\ \E k \in DOMAIN command_cache :
                /\ command_cache[k].key =
                       GetCacheKey(last'.cmd.type, last'.cmd.parameters)
                /\ command_cache[k].result = last'.result
          /\ UNCHANGED <<connection, sendCount, hpc, hcmd, transportVars>>
    /\ (hpc = "idle" /\ hpc' = "sending") =>
          /\ ~HasFreshEntry(hcmd')
          /\ last' = last

\* C37: a cache hit is served independently of the connection state: for a
\* cacheable command with an entry that has not expired, handle returns the
\* cached result without obtaining a connection, connecting or sending,
\* also when the handler has no connection or the remote host is
\* unreachable.
C37_HitNeedsNoConnection == [][HitStep]_vars

\* with the remote host down, a call was served the reply of the first
\* send_command call from the cache, after a second send_command call
C37_Witness ==
    /\ last.valid
    /\ last.sends = 0
    /\ last.host = "down"
    /\ last.result.id = 1
    /\ sendCount = 2
    /\ host = "down"

(* --------------- claims on what batch_execute calls an error ----------- *)

\* the positions whose entry has an error, and those with an error raised
\* by the handler
ErrorPositions == {errors[k].command_index : k \in DOMAIN errors}
RaisedPositions ==
    {errors[k].command_index : k \in {j \in DOMAIN errors :
                                          errors[j].error = "handler"}}

\* the positions whose entry has a result
ResultPositions == {results[k].src : k \in DOMAIN results}

\* the positions the loop has passed whose entry is malformed or names a
\* type that does not resolve
BadPositions ==
    {i \in 0..(bi - 1) : Classify(bcommands.items[i + 1]) # "call"}

\* the positions whose handler was invoked
CalledPositions == {bcalls[k] : k \in DOMAIN bcalls}

\* C38: batch_execute classifies an item as an error only when it is
\* malformed, unresolvable or its handler raises: an item whose handler
\* returns is appended to results and counted in successCount also when
\* the returned payload carries success == false, so that the batch's
\* success can be true although an item's payload reports failure.
C38_PayloadFailureIsAResult ==
    bpc = "loop" \/ BatchReturned =>
        /\ ErrorPositions = BadPositions \cup RaisedPositions
        /\ RaisedPositions \subseteq CalledPositions
        /\ ResultPositions = CalledPositions \ RaisedPositions
        /\ Len(results) = Cardinality(ResultPositions)
        /\ BatchReturned =>
              /\ bout.successCount = Cardinality(CalledPositions \ RaisedPositions)
              /\ bout.success = (ErrorPositions = {})

\* a batch returned success true with two results, the first of which
\* carries success false
C38_Witness ==
    /\ BatchReturned
    /\ bout.success
    /\ bout.successCount = 2
    /\ bout.errorCount = 0
    /\ Len(results) = 2
    /\ results[1].success = "False"
    /\ results[2].success = "True"

(* ------------------- claims on the table of operations ----------------- *)

\* the ids start_operation has returned: those of the table, but for the
\* id of a call that has stored its record and not returned yet
Returned ==
    DOMAIN operations \ (IF stpc \in {"L206", "L212"} THEN {stid} ELSE {})

\* no step removes an operation or changes its type or its creation time;
\* the ids returned change only when start_operation returns one more; a
\* get_async_status call succeeds exactly for an id start_operation has
\* returned
TableStep ==
    /\ \A id \in DOMAIN operations :
          /\ id \in DOMAIN operations'
          /\ operations'[id].command_type = operations[id].command_type
          /\ operations'[id].creation_time = operations[id].creation_time
    /\ Returned' # Returned =>
          /\ sret'.kind = "id"
          /\ sret' # sret
          /\ Returned' = Returned \cup {sret'.id}
    /\ (gout' # gout /\ gout'.kind # "none") =>
          (gout'.kind = "operation" <=> gout'.id \in Returned)

\* C39: the table of operations only grows: once start_operation has
\* returned an id, get on that id never fails with not-found, and the
\* operation's id, command type, parameters and creation time never change
\* after creation; get on an id start_operation never returned always
\* fails.
C39_TableOnlyGrows ==
    /\ [][TableStep]_vars
    /\ [](sret.kind = "id" => sret.id \in Returned)
    /\ [](gout.kind = "operation" => gout.id \in Returned)

\* get_async_status has found the first operation, which has completed,
\* and a second operation has been started
C39_Witness ==
    /\ gout.kind = "operation"
    /\ gout.id = 1
    /\ Len(operations) = 2
    /\ operations[1].status = "completed"
    /\ sret = [kind |-> "id", id |-> 2]

(* ------------------------ claims on the progress ----------------------- *)

\* progress lies between 0 and 1.0
ProgressInRange ==
    \A id \in DOMAIN operations : operations[id].progress \in 0..ProgressEnd

\* progress goes up by one tenth at a time below 1.0, and the step that
\* sets it to 1.0 leaves the operation completed or failed
ProgressStep ==
    \A id \in DOMAIN operations :
        \/ operations'[id].progress = operations[id].progress
        \/ /\ operations'[id].progress = operations[id].progress + 1
           /\ operations'[id].progress < ProgressEnd
        \/ /\ operations'[id].progress = ProgressEnd
           /\ operations[id].progress < ProgressEnd
           /\ operations'[id].status \in {"completed", "failed"}

\* C40: the progress of every operation always lies in [0, 1] and never
\* decreases: it starts at 0, takes the values 0.1 ... 0.9 in increasing
\* order during the simulated work, and is set to 1.0 only together with
\* a completed or failed outcome.
C40_ProgressMonotone == []ProgressInRange /\ [][ProgressStep]_vars

(* ------------------------------ the whole ------------------------------ *)
(* The components share no state but the clock; each is checked under its  *)
(* own specification (SpecAsync, SpecBatch, SpecCache, SpecDispatch,       *)
(* SpecTransport, SpecRestart, SpecWire, SpecFraming, SpecAsyncRun,        *)
(* SpecStart, SpecStartFair, SpecQuery, SpecPairing).                      *)

Next ==
    \/ NextAsync
    \/ NextStart
    \/ NextBatch
    \/ NextCache
    \/ NextDispatch
    \/ NextTransport
    \/ NextWire
    \/ NextFraming
    \/ NextQuery
    \/ NextPairing

Spec == Init /\ [][Next]_vars

====
